---- MODULE Spec2Model ----
(***************************************************************************)
(* A model of the productivity-detection core:                             *)
(*   - SimpleTracker          (src/src/video_processing/tracker.py)        *)
(*   - ZoneManager            (src/src/zone_tracking/zone_manager.py)      *)
(*   - PersonZoneTracker      (src/src/zone_tracking/person_zone_tracker.py)*)
(*   - AnomalyDetector        (src/src/analytics/anomaly_detector.py)      *)
(*                                                                         *)
(* Numbers: coordinates and timestamps are integers; an IoU is the exact   *)
(* fraction <<numerator, denominator>> of the two areas.                   *)
(***************************************************************************)
EXTENDS Integers, Sequences, FiniteSets, Bags, TLC

VARIABLES
    \* SimpleTracker
    next_object_id,      \* self.next_object_id
    objects,             \* self.objects     : id -> <<x, y, w, h>>
    disappeared,         \* self.disappeared : id -> missed frames
    ret,                 \* what the last update call returned
    trk_call,            \* history of the last update call: its input, the
                         \* matches it accepted, the identity its bookkeeping
                         \* gave each detection, the ids it deregistered
    retired_ids,         \* history: every id deregistered so far
    unmatched_ticks,     \* history: id -> the number of update calls in a
                         \* row, up to the last call the track was active
                         \* in, that did not match it
    min_iou,             \* self.min_iou, as the fraction <<numerator, denominator>>
    iou_call,            \* history of the last calculate_iou call: its two
                         \* boxes and the fraction it returned
    \* the wall clock, time.time()
    clock,
    \* ZoneManager
    zones,               \* self.zones, in dict order: id, name, type, points
    \* PersonZoneTracker
    person_zones,        \* self.person_zones     : person -> zone id or NoZone
    zone_entry_times,    \* self.zone_entry_times : person -> zone -> time
    time_in_zones,       \* self.time_in_zones    : person -> zone -> seconds
    daily_productive_time, \* self.daily_productive_time : person -> seconds
    last_update_time,    \* self.last_update_time, NoTime for None
    zone_call,           \* history of the last update call: its input, its
                         \* current_time and its time_diff
    dwell,               \* history: person -> the zone it was last observed
                         \* in and the time of the first observation of the
                         \* unbroken run of observations in that zone
    running_update,      \* the update call a thread is in the middle of: its
                         \* detections, how many of them the loop has
                         \* processed, its current_time and time_diff, and
                         \* (history) the maps as they were when it began;
                         \* NoUpdate when no call is running
    \* AnomalyDetector
    thresholds,          \* self.thresholds: zone_capacity, unauthorized_access
    movement_history,    \* self.movement_history : person -> <<zone, time>>*
    appended,            \* history: person -> every entry ever appended to
                         \* the person's movement history, in order
    last_update,         \* self.last_update: when the thresholds were last built
    anomalies,           \* what the last call returned, when it was a
                         \* detect_* call: the rule and the bag of its events
    \* the tracking file and ProductivityAnalyzer
    tracking_file,       \* the file save_data writes: its JSON text, as the
                         \* tree of its objects with every number in its
                         \* written form, and (history) the two maps of the
                         \* tracker when it was written; NoFile before
    loaded,              \* what the last load_tracking_data call returned
    \* CameraStream and main
    camera,              \* self.frame (NoFrame for None), self.stopped,
                         \* whether the capture is released, whether the
                         \* thread is running, and (history) the number of
                         \* frames the source has delivered
    main                 \* the driving loop: where it is (pc), args.display,
                         \* last_save_time, and (history) how the loop was
                         \* left and the calls of the shutdown, in order

trackerVars == <<next_object_id, objects, disappeared, ret, trk_call, retired_ids,
                 unmatched_ticks, min_iou, iou_call>>
zoneVars == <<zones, person_zones, zone_entry_times, time_in_zones,
              daily_productive_time, last_update_time, zone_call, dwell,
              running_update>>
anomalyVars == <<thresholds, movement_history, appended, last_update, anomalies>>

analyzerVars == <<tracking_file, loaded>>

mainVars == <<camera, main>>

vars == <<trackerVars, clock, zoneVars, anomalyVars, analyzerVars, mainVars>>

-----------------------------------------------------------------------------
(* Bounds of the model                                                     *)

\* update is not called once next_object_id could pass MaxId, or MaxRowId
\* when the tracker holds boxes of the row (a call that leaves a track
\* unmatched beside a matchable detection takes four identities)
MaxId == 2
MaxRowId == 4
\* detections in one frame
MaxDets == 2
\* SimpleTracker(max_disappeared=...): the disappearance window used here
max_disappeared == 1

\* SimpleTracker(min_iou=0.3), as the fraction min_iou_num / min_iou_den
min_iou_num == 3
min_iou_den == 10

\* The boxes a detector reports, <<x_center, y_center, width, height>>.
\* BoxA, BoxB and BoxC have centres closer than 10 in x and y;
\* IoU(BoxA, BoxB) = IoU(BoxA, BoxC) = 1/4 is below min_iou,
\* IoU(BoxB, BoxC) = 9/11 is above it; BoxD overlaps none of them.
BoxA == <<100, 100, 20, 20>>
BoxB == <<100, 100, 40, 40>>
BoxC == <<104, 100, 40, 40>>
BoxD == <<300, 300, 20, 20>>
Boxes == {BoxA, BoxB, BoxC, BoxD}

\* Malformed boxes at BoxA's place: of width zero, and of negative width
BoxZ == <<100, 100, 0, 20>>
BoxN == <<100, 100, -20, 20>>
DegenerateBoxes == {BoxZ, BoxN}
Degenerate(box) == box[3] <= 0 \/ box[4] <= 0

\* Four boxes in a row, 10 wide: IoU(BoxP, BoxR) = 1/3 is above min_iou,
\* IoU(BoxP, BoxS) = IoU(BoxQ, BoxR) = 1/4 is below it, and the other pairs
\* do not overlap.
BoxP == <<105, 100, 10, 20>>
BoxQ == <<116, 100, 10, 20>>
BoxR == <<110, 100, 10, 20>>
BoxS == <<99, 100, 10, 20>>
RowBoxes == {BoxP, BoxQ, BoxR, BoxS}

\* The boxes calculate_iou is called with on its own: centres on a grid of
\* 0..MaxCoord, sides from -1 (a malformed box) to MaxSide. Two boxes of
\* side 2 whose centres are 2 apart touch along an edge or at a corner.
MaxCoord == 2
MaxSide == 2
IouBoxes == {<<x, y, w, h>> : x \in 0..MaxCoord, y \in 0..MaxCoord,
                              w \in -1..MaxSide, h \in -1..MaxSide}

\* A detection as PersonDetector.detect builds it: [temp_id, x, y, w, h, conf]
Detection(b) == <<-1, b[1], b[2], b[3], b[4], 90>>
Detections == {Detection(b) : b \in Boxes}
BoxOf(det) == <<det[2], det[3], det[4], det[5]>>

\* lists of at most n elements of S
SeqsUpTo(S, n) == UNION {[1..k -> S] : k \in 0..n}

\* One frame's detections: at most MaxDets boxes, no box twice (the detector
\* suppresses duplicate boxes), in any order.
Frames == {f \in SeqsUpTo(Detections, MaxDets) :
              \A i, j \in 1..Len(f) : i # j => f[i] # f[j]}

\* Frames in which malformed boxes occur beside BoxA and BoxD
DegenerateFrames ==
    {f \in SeqsUpTo({Detection(b) : b \in {BoxA, BoxD} \cup DegenerateBoxes}, MaxDets) :
        \A i, j \in 1..Len(f) : i # j => f[i] # f[j]}

\* Frames of the boxes in a row
RowFrames ==
    {f \in SeqsUpTo({Detection(b) : b \in RowBoxes}, MaxDets) :
        \A i, j \in 1..Len(f) : i # j => f[i] # f[j]}

\* The values of min_iou a tracker is constructed with: 0, the default, 1
MinIous == {<<0, 1>>, <<min_iou_num, min_iou_den>>, <<1, 1>>}

-----------------------------------------------------------------------------
(* Helpers                                                                 *)

Max(a, b) == IF a >= b THEN a ELSE b
Min(a, b) == IF a <= b THEN a ELSE b
Abs(a) == IF a >= 0 THEN a ELSE -a
MinOf(S) == CHOOSE m \in S : \A e \in S : m <= e

\* dict[key] = value
Put(f, k, v) == [x \in (DOMAIN f) \cup {k} |-> IF x = k THEN v ELSE f[x]]
\* del dict[key]
Del(f, k) == [x \in (DOMAIN f) \ {k} |-> f[x]]

RECURSIVE Gcd(_, _)
Gcd(a, b) == IF b = 0 THEN a ELSE Gcd(b, a % b)
Lcm(a, b) == (a \div Gcd(a, b)) * b

RECURSIVE LcmOf(_)
LcmOf(S) == IF S = {} THEN 1
            ELSE LET e == CHOOSE x \in S : TRUE IN Lcm(e, LcmOf(S \ {e}))

\* fractions <<n, d>> with n >= 0 and d > 0
FracGeq(p, q) == p[1] * q[2] >= q[1] * p[2]

-----------------------------------------------------------------------------
(* SimpleTracker                                                           *)

\* The tracker's fields as one value
TrackerState == [next_object_id |-> next_object_id,
                 objects |-> objects,
                 disappeared |-> disappeared]

registerReuse(st, centroid) ==
    LET free == {i \in 0..st.next_object_id : i \notin DOMAIN st.objects}
        id == MinOf(free)
    IN  [next_object_id |-> Max(st.next_object_id, id + 1),
         objects |-> Put(st.objects, id, centroid),
         disappeared |-> Put(st.disappeared, id, 0)]

register(st, centroid) ==
    [next_object_id |-> st.next_object_id + 1,
     objects |-> Put(st.objects, st.next_object_id, centroid),
     disappeared |-> Put(st.disappeared, st.next_object_id, 0)]

deregisterKeepsCounter(st, object_id) ==
    [next_object_id |-> st.next_object_id,
     objects |-> Del(st.objects, object_id),
     disappeared |-> st.disappeared]

deregister(st, object_id) ==
    [next_object_id |-> st.next_object_id,
     objects |-> Del(st.objects, object_id),
     disappeared |-> Del(st.disappeared, object_id)]

iouOverFirstBox(boxA, boxB) ==
    LET xA_i == Max(2 * boxA[1] - boxA[3], 2 * boxB[1] - boxB[3])
        yA_i == Max(2 * boxA[2] - boxA[4], 2 * boxB[2] - boxB[4])
        xB_i == Min(2 * boxA[1] + boxA[3], 2 * boxB[1] + boxB[3])
        yB_i == Min(2 * boxA[2] + boxA[4], 2 * boxB[2] + boxB[4])
        inter_area == Max(0, xB_i - xA_i) * Max(0, yB_i - yA_i)
        boxA_area == 4 * boxA[3] * boxA[4]
    IN  IF boxA_area > 0 THEN <<inter_area, boxA_area>> ELSE <<0, 1>>

iouUnclamped(boxA, boxB) ==
    LET xA_i == Max(2 * boxA[1] - boxA[3], 2 * boxB[1] - boxB[3])
        yA_i == Max(2 * boxA[2] - boxA[4], 2 * boxB[2] - boxB[4])
        xB_i == Min(2 * boxA[1] + boxA[3], 2 * boxB[1] + boxB[3])
        yB_i == Min(2 * boxA[2] + boxA[4], 2 * boxB[2] + boxB[4])
        inter_area == (xB_i - xA_i) * (yB_i - yA_i)
        union_area == 4 * boxA[3] * boxA[4] + 4 * boxB[3] * boxB[4] - inter_area
    IN  IF union_area > 0 THEN <<inter_area, union_area>> ELSE <<0, 1>>

\* calculate_iou: the corner coordinates are kept doubled (2*x -+ w), so the
\* areas are four times the real ones and their quotient is the real IoU.
calculate_iou(boxA, boxB) ==
    LET x1A == 2 * boxA[1] - boxA[3]
        y1A == 2 * boxA[2] - boxA[4]
        x2A == 2 * boxA[1] + boxA[3]
        y2A == 2 * boxA[2] + boxA[4]
        x1B == 2 * boxB[1] - boxB[3]
        y1B == 2 * boxB[2] - boxB[4]
        x2B == 2 * boxB[1] + boxB[3]
        y2B == 2 * boxB[2] + boxB[4]
        xA_i == Max(x1A, x1B)
        yA_i == Max(y1A, y1B)
        xB_i == Min(x2A, x2B)
        yB_i == Min(y2A, y2B)
        inter_area == Max(0, xB_i - xA_i) * Max(0, yB_i - yA_i)
        boxA_area == (x2A - x1A) * (y2A - y1A)
        boxB_area == (x2B - x1B) * (y2B - y1B)
        union_area == boxA_area + boxB_area - inter_area
    IN  IF union_area > 0 THEN <<inter_area, union_area>> ELSE <<0, 1>>

\* a threshold that also rejects an IoU equal to min_iou
aboveMinIouStrictly(iou) == ~ FracGeq(min_iou, iou)

\* line 95: iou_matrix[row, col] >= self.min_iou
AboveMinIou(iou) == FracGeq(iou, min_iou)

\* list(self.objects.keys()): a dict lists its keys in insertion order, and
\* ids are inserted in increasing order and never inserted again, so the
\* order is the ascending one.
RECURSIVE IdsFrom(_, _)
IdsFrom(S, i) ==
    IF \A id \in S : id < i THEN <<>>
    ELSE (IF i \in S THEN <<i>> ELSE <<>>) \o IdsFrom(S, i + 1)

SortedIds(S) == IdsFrom(S, 0)

RECURSIVE markDisappearedAtLimit(_, _)
markDisappearedAtLimit(st, ids) ==
    IF ids = <<>> THEN st
    ELSE LET object_id == Head(ids)
             missed == st.disappeared[object_id] + 1
             st1 == [st EXCEPT !.disappeared[object_id] = missed]
             st2 == IF missed >= max_disappeared
                    THEN deregister(st1, object_id)
                    ELSE st1
         IN  markDisappearedAtLimit(st2, Tail(ids))

\* for object_id in ids: self.disappeared[object_id] += 1, and deregister
\* when that exceeds max_disappeared (lines 62-65 and 104-108)
RECURSIVE MarkDisappeared(_, _)
MarkDisappeared(st, ids) ==
    IF ids = <<>> THEN st
    ELSE LET object_id == Head(ids)
             missed == st.disappeared[object_id] + 1
             st1 == [st EXCEPT !.disappeared[object_id] = missed]
             st2 == IF missed > max_disappeared
                    THEN deregister(st1, object_id)
                    ELSE st1
         IN  MarkDisappeared(st2, Tail(ids))

\* for detection in dets: self.register([x, y, w, h])
RECURSIVE RegisterAll(_, _)
RegisterAll(st, dets) ==
    IF dets = <<>> THEN st
    ELSE RegisterAll(register(st, BoxOf(Head(dets))), Tail(dets))

\* the elements of seq at the indices in keep, in order
RECURSIVE SelectIdx(_, _, _)
SelectIdx(seq, keep, i) ==
    IF i > Len(seq) THEN <<>>
    ELSE (IF i \in keep THEN <<seq[i]>> ELSE <<>>) \o SelectIdx(seq, keep, i + 1)

\* the boxes that occur in the frames the tracker is fed
TrackedBoxes == Boxes \cup DegenerateBoxes \cup RowBoxes

\* calculate_iou, tabulated once for the boxes that occur
IouTable == [a \in TrackedBoxes |->
                [b \in TrackedBoxes |-> calculate_iou(a, b)]]

\* A common denominator of all IoUs that occur: the sum of several IoUs is
\* then the sum of their numerators over IouUnit.
IouUnit == LcmOf({IouTable[a][b][2] : a, b \in TrackedBoxes})

\* IoU(a, b) * IouUnit, an integer
IouWeight == [a \in TrackedBoxes |-> [b \in TrackedBoxes |->
                 IouTable[a][b][1] * (IouUnit \div IouTable[a][b][2])]]

\* iou_matrix[row of object_id, j]
IouOf(st, detections, object_id, j) ==
    IouTable[st.objects[object_id]][BoxOf(detections[j])]

Injections(S, T) == {f \in [S -> T] : \A a, b \in S : a # b => f[a] # f[b]}

\* What linear_sum_assignment may return for the matrix of the objects `ids`
\* and m detections: min(n, m) pairs with no row and no column used twice,
\* written <<object_id, detection index>>.
Assignments(ids, m) ==
    IF Cardinality(ids) <= m
    THEN {{<<i, f[i]>> : i \in ids} : f \in Injections(ids, 1..m)}
    ELSE {{<<f[j], j>> : j \in 1..m} : f \in Injections(1..m, ids)}

\* the total IoU of an assignment, in units of 1/IouUnit
RECURSIVE TotalIou(_, _, _)
TotalIou(st, detections, pairs) ==
    IF pairs = {} THEN 0
    ELSE LET p == CHOOSE q \in pairs : TRUE
         IN  IouWeight[st.objects[p[1]]][BoxOf(detections[p[2]])]
               + TotalIou(st, detections, pairs \ {p})

MaxOfSet(S) == CHOOSE t \in S : \A u \in S : t >= u

\* linear_sum_assignment(iou_matrix), without the minus sign: an assignment
\* of minimal total IoU
costMinimisingAssignments(st, detections) ==
    LET all == Assignments(DOMAIN st.objects, Len(detections))
        least == CHOOSE t \in {TotalIou(st, detections, a) : a \in all} :
                    \A a \in all : t <= TotalIou(st, detections, a)
    IN  {a \in all : TotalIou(st, detections, a) = least}

\* an assignment picked without regard to the IoUs
unoptimisedAssignments(st, detections) ==
    Assignments(DOMAIN st.objects, Len(detections))

\* linear_sum_assignment(-iou_matrix): an assignment of maximal total IoU;
\* which of several maximal ones the solver returns is left open.
OptimalAssignments(st, detections) ==
    LET all == Assignments(DOMAIN st.objects, Len(detections))
        best == MaxOfSet({TotalIou(st, detections, a) : a \in all})
    IN  {a \in all : TotalIou(st, detections, a) = best}

\* a search that takes no object for the detection's
findMatchingObjectNowhere(objs, detection) ==
    LET near == {object_id \in DOMAIN objs :
                    /\ Abs(detection[2] - objs[object_id][1]) < 0
                    /\ Abs(detection[3] - objs[object_id][2]) < 0}
    IN  IF near = {} THEN -1 ELSE MinOf(near)

\* lines 121-127: the first object, in dict order, closer than 10 to the
\* detection in x and in y; None is written -1, as line 132 does
FindMatchingObject(objs, detection) ==
    LET near == {object_id \in DOMAIN objs :
                    /\ Abs(detection[2] - objs[object_id][1]) < 10
                    /\ Abs(detection[3] - objs[object_id][2]) < 10}
    IN  IF near = {} THEN -1 ELSE MinOf(near)

\* lines 116-134
TrackedDetections(objs, detections) ==
    [i \in 1..Len(detections) |->
        <<FindMatchingObject(objs, detections[i]),
          detections[i][2], detections[i][3], detections[i][4],
          detections[i][5], detections[i][6]>>]

\* lines 74-114 for the assignment `pairs`: the tracker afterwards, and what
\* the call did (accepted: the matches kept, as <<object_id, detection index>>)
MatchStep(st, detections, pairs) ==
    LET object_ids == SortedIds(DOMAIN st.objects)
        accepted == {p \in pairs : AboveMinIou(IouOf(st, detections, p[1], p[2]))}
        used_objects == {p[1] : p \in accepted}
        used_detections == {p[2] : p \in accepted}
        detOf(object_id) == CHOOSE j \in used_detections : <<object_id, j>> \in accepted
        st1 == [st EXCEPT
                  !.objects = [id \in DOMAIN st.objects |->
                                  IF id \in used_objects
                                  THEN BoxOf(detections[detOf(id)])
                                  ELSE st.objects[id]],
                  !.disappeared = [id \in DOMAIN st.disappeared |->
                                  IF id \in used_objects THEN 0
                                  ELSE st.disappeared[id]]]
        unmatched == SelectIdx(object_ids,
                               {i \in 1..Len(object_ids) : object_ids[i] \notin used_objects}, 1)
        st2 == MarkDisappeared(st1, unmatched)
        fresh == SelectIdx(detections, (1..Len(detections)) \ used_detections, 1)
        st3 == RegisterAll(st2, fresh)
    IN  [after |-> st3, accepted |-> accepted,
         retired |-> DOMAIN st.objects \ DOMAIN st2.objects]

\* The identity the call's own bookkeeping gives detection j: the matched
\* object's, or the one register is called with for it (fresh ids are handed
\* out from next_object_id on, in input order).
AssignedId(st, accepted, detections, j) ==
    IF \E p \in accepted : p[2] = j
    THEN (CHOOSE p \in accepted : p[2] = j)[1]
    ELSE st.next_object_id
           + Cardinality({k \in 1..(j - 1) : ~ \E p \in accepted : p[2] = k})

\* What a call did: its input, the missed_frames of the tracks before it
\* (missed), the pairs the assignment chose (chosen), the pairs of them kept
\* as matches (accepted), the identity each detection got and the tracks
\* retired.
Record(st, detections, chosen, accepted, retired) ==
    [detections |-> detections,
     missed |-> st.disappeared,
     chosen |-> chosen,
     accepted |-> accepted,
     assigned |-> [j \in 1..Len(detections) |-> AssignedId(st, accepted, detections, j)],
     retired |-> retired]

\* unmatched_ticks after a call that matched the tracks `matched` and left
\* the tracks `active` active
Ticked(matched, active) ==
    [id \in DOMAIN unmatched_ticks \cup active |->
        IF id \notin DOMAIN objects
        THEN (IF id \in DOMAIN unmatched_ticks THEN unmatched_ticks[id] ELSE 0)
        ELSE IF id \in matched THEN 0 ELSE unmatched_ticks[id] + 1]

\* the bound on next_object_id for the tracker st
IdBound(st) ==
    IF \E id \in DOMAIN st.objects : st.objects[id] \in RowBoxes
    THEN MaxRowId ELSE MaxId

\* a call after which no track's missed_frames is lower than before
commitNeverLowersMissed(st) ==
    /\ st.next_object_id <= IdBound(st)
    /\ next_object_id' = st.next_object_id
    /\ objects' = st.objects
    /\ disappeared' = [id \in DOMAIN st.disappeared |->
                          IF id \in DOMAIN disappeared
                          THEN Max(disappeared[id], st.disappeared[id])
                          ELSE st.disappeared[id]]

\* the tracker's fields when update returns
Commit(st) ==
    /\ st.next_object_id <= IdBound(st)
    /\ next_object_id' = st.next_object_id
    /\ objects' = st.objects
    /\ disappeared' = st.disappeared

\* update([]): lines 61-66; the call returns self.objects itself
UpdateNoDetections ==
    LET st == TrackerState
        after == MarkDisappeared(st, SortedIds(DOMAIN st.disappeared))
    IN  /\ Commit(after)
        /\ ret' = [kind |-> "objects", list |-> <<>>]
        /\ trk_call' = Record(st, <<>>, {}, {}, DOMAIN st.objects \ DOMAIN after.objects)
        /\ retired_ids' = retired_ids \cup (DOMAIN st.objects \ DOMAIN after.objects)
        /\ unmatched_ticks' = Ticked({}, DOMAIN after.objects)
        /\ UNCHANGED <<mainVars, analyzerVars, min_iou, iou_call, clock, zoneVars, anomalyVars>>

\* update(detections) with nothing tracked yet: lines 69-72, 116-134
UpdateRegisterAll(detections) ==
    LET st == TrackerState
        after == RegisterAll(st, detections)
    IN  /\ detections # <<>>
        /\ DOMAIN objects = {}
        /\ Commit(after)
        /\ ret' = [kind |-> "list", list |-> TrackedDetections(after.objects, detections)]
        /\ trk_call' = Record(st, detections, {}, {}, {})
        /\ retired_ids' = retired_ids
        /\ unmatched_ticks' = Ticked({}, DOMAIN after.objects)
        /\ UNCHANGED <<mainVars, analyzerVars, min_iou, iou_call, clock, zoneVars, anomalyVars>>

\* update(detections) with tracked objects: lines 73-134
UpdateMatch(detections) ==
    LET st == TrackerState
    IN  /\ detections # <<>>
        /\ DOMAIN objects # {}
        /\ \E pairs \in OptimalAssignments(st, detections) :
              \E step \in {MatchStep(st, detections, pairs)} :
                  /\ Commit(step.after)
                  /\ ret' = [kind |-> "list",
                             list |-> TrackedDetections(step.after.objects, detections)]
                  /\ trk_call' = Record(st, detections, pairs, step.accepted, step.retired)
                  /\ retired_ids' = retired_ids \cup step.retired
                  /\ unmatched_ticks' = Ticked({pair[1] : pair \in step.accepted},
                                               DOMAIN step.after.objects)
        /\ UNCHANGED <<mainVars, analyzerVars, min_iou, iou_call, clock, zoneVars, anomalyVars>>

\* what iou_call holds for the result until the call has returned
NotReturned == <<>>

\* calculate_iou(boxA, boxB), called on its own with the two boxes of iou_call
CalculateIou ==
    /\ iou_call.boxA # <<>>
    /\ iou_call.iou = NotReturned
    /\ iou_call' = [iou_call EXCEPT !.iou = calculate_iou(iou_call.boxA, iou_call.boxB)]
    /\ UNCHANGED <<mainVars, analyzerVars, next_object_id, objects, disappeared, ret, trk_call,
                   retired_ids, unmatched_ticks, min_iou, clock, zoneVars, anomalyVars>>

\* no calculate_iou call yet
NoIouCall == [boxA |-> <<>>, boxB |-> <<>>, iou |-> NotReturned]

\* SimpleTracker(max_disappeared, min_iou): lines 8-14
SimpleTracker(configured_min_iou) ==
    /\ next_object_id = 0
    /\ objects = <<>>
    /\ disappeared = <<>>
    /\ min_iou = configured_min_iou
    /\ ret = [kind |-> "none", list |-> <<>>]
    /\ trk_call = [detections |-> <<>>, missed |-> <<>>, chosen |-> {}, accepted |-> {},
                   assigned |-> <<>>,
                   retired |-> {}]
    /\ retired_ids = {}
    /\ unmatched_ticks = <<>>

\* main.py line 41: SimpleTracker(max_disappeared=30, min_iou=0.3)
TrackerInit == SimpleTracker(<<min_iou_num, min_iou_den>>) /\ iou_call = NoIouCall

-----------------------------------------------------------------------------
(* ZoneManager                                                             *)

\* None, for a zone id and for a timestamp
NoZone == "None"
NoTime == -1

\* time.time() when the program starts (seconds since the epoch, positive)
Epoch == 1000

\* The polygon of an axis-parallel rectangle, as main.py lists its corners
Rect(x1, y1, x2, y2) == <<<<x1, y1>>, <<x2, y1>>, <<x2, y2>>, <<x1, y2>>>>

\* The zones of main.py lines 50-61. A name is written as the list of its
\* parts between underscores, name.split("_").
Desk1 == [id |-> "desk1", name |-> <<"Desk 1">>, type |-> "desk",
          points |-> Rect(100, 100, 300, 200)]
Meeting1 == [id |-> "meeting1", name |-> <<"Meeting Room">>, type |-> "meeting_room",
             points |-> Rect(350, 100, 550, 200)]
Break1 == [id |-> "break1", name |-> <<"Break Area">>, type |-> "break_area",
           points |-> Rect(100, 250, 300, 350)]
DefaultZones == <<Desk1, Meeting1, Break1>>

\* A zones file in which the desk carries its owner in its name, "desk_1",
\* the form _initialize_zone_thresholds reads a person id from
OwnedDesk1 == [Desk1 EXCEPT !.name = <<"desk", "1">>]
OwnedDeskZones == <<OwnedDesk1, Meeting1, Break1>>

\* A zone read from a zones file may lack a key: a type that is Absent and a
\* name that is MissingName (no split of a str is the empty list) stand for
\* a zone dict without "type" and without "name"
Absent == "<absent>"
MissingName == <<>>

\* Zones files: those above, one without the meeting room, one in which the
\* meeting room has become a break area, and two with a zone that lacks a key
UntypedMeeting1 == [Meeting1 EXCEPT !.type = Absent]
UnnamedDesk1 == [OwnedDesk1 EXCEPT !.name = MissingName]
RetypedMeeting1 == [Meeting1 EXCEPT !.type = "break_area"]
ZoneFiles == {DefaultZones, OwnedDeskZones, <<Desk1, Break1>>,
              <<Desk1, RetypedMeeting1, Break1>>,
              <<OwnedDesk1, UntypedMeeting1, Break1>>,
              <<UnnamedDesk1, Meeting1, Break1>>}

\* Where a person is seen: at the centre of a zone, or outside all zones
Outside == <<600, 400>>
Centre(points) == <<(points[1][1] + points[3][1]) \div 2,
                    (points[1][2] + points[3][2]) \div 2>>
Spots(zs) == {Centre(zs[i].points) : i \in 1..Len(zs)} \cup {Outside}

\* zone_id in self.zones
HasZone(zs, zone_id) == \E i \in 1..Len(zs) : zs[i].id = zone_id
\* self.zones[zone_id]
ZoneById(zs, zone_id) == zs[CHOOSE i \in 1..Len(zs) : zs[i].id = zone_id]

\* cv2.pointPolygonTest(points, point, False) >= 0 for the polygon of an
\* axis-parallel rectangle: inside or on the edge
PointInPolygon(points, point) ==
    /\ \E q \in 1..Len(points) : points[q][1] <= point[1]
    /\ \E q \in 1..Len(points) : points[q][1] >= point[1]
    /\ \E q \in 1..Len(points) : points[q][2] <= point[2]
    /\ \E q \in 1..Len(points) : points[q][2] >= point[2]

point_in_zone(zs, point, zone_id) ==
    IF ~ HasZone(zs, zone_id) THEN FALSE
    ELSE PointInPolygon(ZoneById(zs, zone_id).points, point)

\* get_zone_for_point: the first zone, in dict order, that holds the point
get_zone_for_point(zs, point) ==
    LET hits == {i \in 1..Len(zs) : point_in_zone(zs, point, zs[i].id)}
    IN  IF hits = {} THEN NoZone ELSE zs[MinOf(hits)].id

isProductiveUnlessKnown(zs, zone_id) ==
    IF ~ HasZone(zs, zone_id) THEN TRUE
    ELSE ZoneById(zs, zone_id).type \in {"desk", "meeting_room"}

\* is_productive_zone, lines 63-70
is_productive_zone(zs, zone_id) ==
    IF ~ HasZone(zs, zone_id) THEN FALSE
    ELSE ZoneById(zs, zone_id).type \in {"desk", "meeting_room"}

\* the zones without the zone zone_id, in their order
RECURSIVE Without(_, _)
Without(zs, zone_id) ==
    IF zs = <<>> THEN <<>>
    ELSE (IF Head(zs).id = zone_id THEN <<>> ELSE <<Head(zs)>>)
            \o Without(Tail(zs), zone_id)

-----------------------------------------------------------------------------
(* PersonZoneTracker                                                       *)

\* persons are the tracker's identities 0 .. NumPersons-1
NumPersons == 2
\* the persons followed through the zones call by call in SpecZone
NumWalkers == 1
\* tracked detections in one update call of SpecZone
MaxTracked == 2
\* persons in the one crowded frame of SpecCrowd
MaxCrowd == 7

\* dict.get(key, default)
Get(f, k, default) == IF k \in DOMAIN f THEN f[k] ELSE default
addToOverwrites(f, k, v) == Put(f, k, v)

\* defaultdict(float): d[k] += v
AddTo(f, k, v) == Put(f, k, Get(f, k, 0) + v)

\* no update call is running
NoUpdate == [detections |-> <<>>, done |-> -1, now |-> NoTime, time_diff |-> 0,
             before |-> <<>>]

\* no detect_* call was the last call
NoScan == [rule |-> "none", events |-> EmptyBag]

\* The tracker's fields as one value
ZoneTrackerState ==
    [person_zones |-> person_zones,
     zone_entry_times |-> zone_entry_times,
     time_in_zones |-> time_in_zones,
     daily_productive_time |-> daily_productive_time]

\* self.zone_entry_times[person_id][zone_id] = current_time (lines 57-59, 70-72)
RecordEntry(entries, person_id, zone_id, current_time) ==
    Put(entries, person_id, Put(Get(entries, person_id, <<>>), zone_id, current_time))

FlushSinceLastUpdate(zt, zs, person_id, prev_zone_id, current_time) ==
    LET entry_time == Get(Get(zt.zone_entry_times, person_id, <<>>), prev_zone_id, NoTime)
        time_spent == current_time - last_update_time
    IN  IF prev_zone_id = NoZone \/ entry_time = NoTime \/ entry_time = 0
        THEN zt
        ELSE [zt EXCEPT
                !.time_in_zones =
                    Put(@, person_id,
                        AddTo(Get(@, person_id, <<>>), prev_zone_id, time_spent)),
                !.daily_productive_time =
                    IF is_productive_zone(zs, prev_zone_id)
                    THEN AddTo(@, person_id, time_spent)
                    ELSE @]

\* lines 44-53: the time spent in prev_zone_id is added when the person leaves
Flush(zt, zs, person_id, prev_zone_id, current_time) ==
    LET entry_time == Get(Get(zt.zone_entry_times, person_id, <<>>), prev_zone_id, NoTime)
        time_spent == current_time - entry_time
    IN  IF prev_zone_id = NoZone \/ entry_time = NoTime \/ entry_time = 0
        THEN zt
        ELSE [zt EXCEPT
                !.time_in_zones =
                    Put(@, person_id,
                        AddTo(Get(@, person_id, <<>>), prev_zone_id, time_spent)),
                !.daily_productive_time =
                    IF is_productive_zone(zs, prev_zone_id)
                    THEN AddTo(@, person_id, time_spent)
                    ELSE @]

\* lines 29-75: one detection of the list
ProcessDetection(zt, zs, detection, current_time, time_diff) ==
    LET person_id == detection[1]
        current_zone_id == get_zone_for_point(zs, <<detection[2], detection[3]>>)
        prev_zone_id == zt.person_zones[person_id]
        entered == IF current_zone_id # NoZone
                   THEN [zt EXCEPT !.zone_entry_times =
                            RecordEntry(@, person_id, current_zone_id, current_time)]
                   ELSE zt
        changed == LET flushed == Flush(zt, zs, person_id, prev_zone_id, current_time)
                   IN  IF current_zone_id # NoZone
                       THEN [flushed EXCEPT !.zone_entry_times =
                                RecordEntry(@, person_id, current_zone_id, current_time)]
                       ELSE flushed
        stayed == IF current_zone_id # NoZone /\ is_productive_zone(zs, current_zone_id)
                  THEN [zt EXCEPT !.daily_productive_time =
                           AddTo(@, person_id, time_diff)]
                  ELSE zt
        zt1 == IF person_id \in DOMAIN zt.person_zones
               THEN (IF current_zone_id # prev_zone_id THEN changed ELSE stayed)
               ELSE entered
    IN  IF person_id < 0 THEN zt
        ELSE [zt1 EXCEPT !.person_zones = Put(@, person_id, current_zone_id)]

\* lines 28-75: for detection in detections
RECURSIVE ProcessAll(_, _, _, _, _)
ProcessAll(zt, zs, detections, current_time, time_diff) ==
    IF detections = <<>> THEN zt
    ELSE ProcessAll(ProcessDetection(zt, zs, Head(detections), current_time, time_diff),
                    zs, Tail(detections), current_time, time_diff)

\* What the caller has seen of each person, kept beside the tracker: the
\* zone of the last observation and the time of the first observation of the
\* unbroken run of observations in that zone.
RECURSIVE Observe(_, _, _, _)
Observe(dw, zs, detections, current_time) ==
    IF detections = <<>> THEN dw
    ELSE LET d == Head(detections)
             z == get_zone_for_point(zs, <<d[2], d[3]>>)
             next == IF d[1] < 0 THEN dw
                     ELSE IF d[1] \in DOMAIN dw /\ dw[d[1]].zone = z THEN dw
                     ELSE Put(dw, d[1], [zone |-> z, since |-> current_time])
         IN  Observe(next, zs, Tail(detections), current_time)

\* A tracked detection as SimpleTracker.update returns it: [id, x, y, w, h, conf].
\* The identity -1 marks an untracked detection (tracker.py line 132).
TrackedAt(person_id, point) == <<person_id, point[1], point[2], 20, 20, 90>>
TrackedInputs(zs, n) ==
    {TrackedAt(-1, Outside)}
      \cup {TrackedAt(q, point) : q \in 0..(n - 1), point \in Spots(zs)}
\* the lists of up to len tracked detections of n persons
TrackedFrames(zs, n, len) == SeqsUpTo(TrackedInputs(zs, n), len)
\* the lists that hold the persons 0 .. k-1 once each, in the order of
\* their identities, for every k up to n
CrowdFrames(zs, n) ==
    UNION {{[i \in 1..k |-> TrackedAt(i - 1, at[i])] : at \in [1..k -> Spots(zs)]} :
           k \in 0..n}

zoneUpdateDropsAbsent(detections) ==
    LET current_time == clock
        seeded == IF last_update_time = NoTime THEN current_time ELSE last_update_time
        time_diff == current_time - seeded
    IN  \E after \in {ProcessAll(ZoneTrackerState, zones, detections,
                                 current_time, time_diff)} :
          /\ person_zones' =
                [q \in DOMAIN after.person_zones |->
                    IF \E j \in 1..Len(detections) : detections[j][1] = q
                    THEN after.person_zones[q]
                    ELSE NoZone]
          /\ zone_entry_times' = after.zone_entry_times
          /\ time_in_zones' = after.time_in_zones
          /\ daily_productive_time' = after.daily_productive_time
          /\ last_update_time' = current_time
          /\ zone_call' = [detections |-> detections, now |-> current_time,
                           time_diff |-> time_diff]
          /\ dwell' = Observe(dwell, zones, detections, current_time)
          /\ anomalies' = NoScan
          /\ UNCHANGED <<mainVars, analyzerVars, trackerVars, clock, zones, running_update, thresholds,
                         movement_history, appended, last_update>>

\* an update that advances last_update_time only when it processed a person
zoneUpdateKeepsTimeWhenIdle(detections) ==
    LET current_time == clock
        seeded == IF last_update_time = NoTime THEN current_time ELSE last_update_time
        time_diff == current_time - seeded
    IN  \E after \in {ProcessAll(ZoneTrackerState, zones, detections,
                                 current_time, time_diff)} :
          /\ person_zones' = after.person_zones
          /\ zone_entry_times' = after.zone_entry_times
          /\ time_in_zones' = after.time_in_zones
          /\ daily_productive_time' = after.daily_productive_time
          /\ last_update_time' =
                IF \E j \in 1..Len(detections) : detections[j][1] >= 0
                THEN current_time ELSE seeded
          /\ zone_call' = [detections |-> detections, now |-> current_time,
                           time_diff |-> time_diff]
          /\ dwell' = Observe(dwell, zones, detections, current_time)
          /\ anomalies' = NoScan
          /\ UNCHANGED <<mainVars, analyzerVars, trackerVars, clock, zones, running_update, thresholds,
                         movement_history, appended, last_update>>

\* PersonZoneTracker.update(detections), lines 18-77
ZoneUpdate(detections) ==
    LET current_time == clock
        seeded == IF last_update_time = NoTime THEN current_time ELSE last_update_time
        time_diff == current_time - seeded
    IN  \E after \in {ProcessAll(ZoneTrackerState, zones, detections,
                                 current_time, time_diff)} :
          /\ person_zones' = after.person_zones
          /\ zone_entry_times' = after.zone_entry_times
          /\ time_in_zones' = after.time_in_zones
          /\ daily_productive_time' = after.daily_productive_time
          /\ last_update_time' = current_time
          /\ zone_call' = [detections |-> detections, now |-> current_time,
                           time_diff |-> time_diff]
          /\ dwell' = Observe(dwell, zones, detections, current_time)
          /\ anomalies' = NoScan
          /\ UNCHANGED <<mainVars, analyzerVars, trackerVars, clock, zones, running_update, thresholds,
                         movement_history, appended, last_update>>

\* update(detections) as a thread runs it, one step of the loop at a time:
\* another thread may run between any two steps, nothing in lines 18-77
\* excludes it. Lines 20-25: the time is read and last_update_time seeded.
UpdateBegin(detections) ==
    LET current_time == clock
        seeded == IF last_update_time = NoTime THEN current_time ELSE last_update_time
    IN  /\ running_update = NoUpdate
        /\ last_update_time' = seeded
        /\ running_update' = [detections |-> detections, done |-> 0,
                              now |-> current_time,
                              time_diff |-> current_time - seeded,
                              before |-> ZoneTrackerState]
        /\ anomalies' = NoScan
        /\ UNCHANGED <<mainVars, analyzerVars, trackerVars, clock, zones, person_zones, zone_entry_times,
                       time_in_zones, daily_productive_time, zone_call, dwell,
                       thresholds, movement_history, appended, last_update>>

\* lines 28-75: one pass of the loop, for the next detection of the list
UpdateStep ==
    /\ running_update # NoUpdate
    /\ running_update.done < Len(running_update.detections)
    /\ \E after \in {ProcessAll(ZoneTrackerState, zones,
                                 <<running_update.detections[running_update.done + 1]>>,
                                 running_update.now, running_update.time_diff)} :
          /\ person_zones' = after.person_zones
          /\ zone_entry_times' = after.zone_entry_times
          /\ time_in_zones' = after.time_in_zones
          /\ daily_productive_time' = after.daily_productive_time
    /\ running_update' = [running_update EXCEPT !.done = @ + 1]
    /\ anomalies' = NoScan
    /\ UNCHANGED <<mainVars, analyzerVars, trackerVars, clock, zones, last_update_time, zone_call, dwell,
                   thresholds, movement_history, appended, last_update>>

\* line 77, after the loop: the call returns
UpdateEnd ==
    /\ running_update # NoUpdate
    /\ running_update.done = Len(running_update.detections)
    /\ last_update_time' = running_update.now
    /\ zone_call' = [detections |-> running_update.detections,
                     now |-> running_update.now,
                     time_diff |-> running_update.time_diff]
    /\ dwell' = Observe(dwell, zones, running_update.detections, running_update.now)
    /\ running_update' = NoUpdate
    /\ anomalies' = NoScan
    /\ UNCHANGED <<mainVars, analyzerVars, trackerVars, clock, zones, person_zones, zone_entry_times,
                   time_in_zones, daily_productive_time,
                   thresholds, movement_history, appended, last_update>>

\* zone_manager.load_zones(filename), lines 38-41: the zones become those of
\* the file
LoadZones(file) ==
    /\ zones' = file
    /\ anomalies' = NoScan
    /\ UNCHANGED <<mainVars, analyzerVars, trackerVars, clock, person_zones, zone_entry_times,
                   time_in_zones, daily_productive_time, last_update_time,
                   zone_call, dwell, running_update,
                   thresholds, movement_history, appended, last_update>>

\* zone_manager.delete_zone(zone_id), lines 29-32
DeleteZone(zone_id) ==
    /\ zones' = Without(zones, zone_id)
    /\ anomalies' = NoScan
    /\ UNCHANGED <<mainVars, analyzerVars, trackerVars, clock, person_zones, zone_entry_times,
                   time_in_zones, daily_productive_time, last_update_time,
                   zone_call, dwell, running_update,
                   thresholds, movement_history, appended, last_update>>

\* lines 85-89: occupancy[zone_id] += 1 for the persons of `persons` whose
\* zone is not None, starting from the counts in occupancy
RECURSIVE CountInto(_, _, _)
CountInto(occupancy, pz, persons) ==
    IF persons = {} THEN occupancy
    ELSE LET person_id == MinOf(persons)
             zone_id == pz[person_id]
         IN  CountInto(IF zone_id # NoZone
                       THEN Put(occupancy, zone_id, Get(occupancy, zone_id, 0) + 1)
                       ELSE occupancy,
                       pz, persons \ {person_id})

occupancyCountsNone(zone_id) ==
    Cardinality({q \in DOMAIN person_zones : person_zones[q] = zone_id})

\* get_zone_occupancy()[zone_id], lines 83-91: the returned defaultdict(int)
\* read at one zone
get_zone_occupancy(zone_id) ==
    Get(CountInto(<<>>, person_zones, DOMAIN person_zones), zone_id, 0)

\* Time passes between two calls: the clock moves on to a later time of T
Tick(T) ==
    /\ \E t \in T : t > clock /\ clock' = t
    /\ anomalies' = NoScan
    /\ UNCHANGED <<mainVars, analyzerVars, trackerVars, zoneVars, thresholds, movement_history, appended, last_update>>

\* get_time_in_zone, lines 93-95
get_time_in_zone(person_id, zone_id) ==
    Get(Get(time_in_zones, person_id, <<>>), zone_id, 0)

\* get_productive_time, lines 97-99
get_productive_time(person_id) == Get(daily_productive_time, person_id, 0)

ZoneInit(layouts) ==
    /\ clock = Epoch
    /\ zones \in layouts
    /\ person_zones = <<>>
    /\ zone_entry_times = <<>>
    /\ time_in_zones = <<>>
    /\ daily_productive_time = <<>>
    /\ last_update_time = NoTime
    /\ zone_call = [detections |-> <<>>, now |-> NoTime, time_diff |-> 0]
    /\ dwell = <<>>
    /\ running_update = NoUpdate

-----------------------------------------------------------------------------
(* AnomalyDetector                                                         *)

\* self.thresholds, lines 13-19
idle_time == 1800
suspicious_movement == 5
movement_window == 600
\* deque(maxlen=20), line 30
history_maxlen == 20

\* self.default_capacities, lines 22-27, and the default of .get, line 44
default_capacity(zone_type) ==
    CASE zone_type = "desk" -> 1
      [] zone_type = "meeting_room" -> 6
      [] zone_type = "break_area" -> 4
      [] zone_type = "hallway" -> 10
      [] OTHER -> 4

\* int(text), for the texts that occur; -1 stands for ValueError
ParseInt(text) ==
    CASE text = "0" -> 0
      [] text = "1" -> 1
      [] text = "2" -> 2
      [] text = "3" -> 3
      [] OTHER -> -1

\* lines 47-60: the persons allowed in the zone, the empty list for no restriction
AllowedPeople(zone) ==
    IF zone.type = "desk"
    THEN IF Len(zone.name) >= 2 /\ ParseInt(zone.name[2]) >= 0
         THEN <<ParseInt(zone.name[2])>>
         ELSE <<>>
    ELSE <<>>

\* zone["type"] (line 42) or zone["name"] (line 49) raises KeyError
RaisesKeyError(zone) ==
    \/ zone.type = Absent
    \/ zone.type = "desk" /\ zone.name = MissingName

\* _initialize_zone_thresholds, lines 38-60, over the zones from index i on.
\* A KeyError ends the loop: line 42 raises before anything is written for
\* the zone, line 49 after its capacity is written (line 44).
RECURSIVE InitializeFrom(_, _, _)
InitializeFrom(th, zs, i) ==
    IF i > Len(zs) THEN th
    ELSE IF zs[i].type = Absent THEN th
    ELSE IF RaisesKeyError(zs[i])
    THEN [th EXCEPT !.zone_capacity = Put(@, zs[i].id, default_capacity(zs[i].type))]
    ELSE InitializeFrom(
            [zone_capacity |-> Put(th.zone_capacity, zs[i].id,
                                   default_capacity(zs[i].type)),
             unauthorized_access |-> Put(th.unauthorized_access, zs[i].id,
                                         AllowedPeople(zs[i]))],
            zs, i + 1)

\* whether _initialize_zone_thresholds raises
initialize_raises(zs) == \E i \in 1..Len(zs) : RaisesKeyError(zs[i])

initialize_zone_thresholds(th, zs) == InitializeFrom(th, zs, 1)

\* An anomaly event. Every event carries the same fields here; a field the
\* rule does not set holds -1 or NoZone. metric is idle_time, current_count
\* or transitions; extra is capacity or unique_zones. zone_name is left out.
Event(type, person_id, zone_id, metric, extra, timestamp, severity) ==
    [type |-> type, person_id |-> person_id, zone_id |-> zone_id,
     metric |-> metric, extra |-> extra, timestamp |-> timestamp,
     severity |-> severity]

idleSeverityAtLeast(time_in_zone) ==
    IF time_in_zone >= 2 * idle_time THEN "high" ELSE "medium"

\* line 96
idleSeverity(time_in_zone) ==
    IF time_in_zone > 2 * idle_time THEN "high" ELSE "medium"

\* detect_idle_time, lines 69-99. The list is kept as a bag: the order of the
\* events, that of the dict, is left out.
detect_idle_time(current_time) ==
    LET entry(q) == Get(Get(zone_entry_times, q, <<>>), person_zones[q], NoTime)
        idle == {q \in DOMAIN person_zones :
                    /\ person_zones[q] # NoZone
                    /\ entry(q) # NoTime
                    /\ current_time - entry(q) > idle_time}
    IN  SetToBag({Event("idle_person", q, person_zones[q], current_time - entry(q),
                        -1, current_time, idleSeverity(current_time - entry(q))) :
                  q \in idle})

\* lines 107-110
zone_counts(zone_id) == Cardinality({q \in DOMAIN person_zones : person_zones[q] = zone_id})

crowdSeverityFromCapacity(count, capacity) ==
    IF count > capacity + 1 THEN "high" ELSE "medium"

\* line 127
crowdSeverity(count, capacity) ==
    IF count > capacity + 2 THEN "high" ELSE "medium"

\* detect_overcrowded_zones, lines 101-130
detect_overcrowded_zones(current_time) ==
    LET occupied == {person_zones[q] : q \in DOMAIN person_zones} \ {NoZone}
        capacity(z) == Get(thresholds.zone_capacity, z, 0)
        over == {z \in occupied :
                    /\ HasZone(zones, z)
                    /\ capacity(z) # 0
                    /\ zone_counts(z) > capacity(z)}
    IN  SetToBag({Event("overcrowded_zone", -1, z, zone_counts(z), capacity(z),
                        current_time, crowdSeverity(zone_counts(z), capacity(z))) :
                  z \in over})

\* person_id in allowed_people
InList(x, list) == \E i \in 1..Len(list) : list[i] = x

isIntruderEveryZone(person_id, zone_id) ==
    LET allowed_people == Get(thresholds.unauthorized_access, zone_id, <<>>)
    IN  ~ InList(person_id, allowed_people)

\* lines 142-143
isIntruder(person_id, zone_id) ==
    LET allowed_people == Get(thresholds.unauthorized_access, zone_id, <<>>)
    IN  allowed_people # <<>> /\ ~ InList(person_id, allowed_people)

\* detect_unauthorized_access, lines 132-154
detect_unauthorized_access(current_time) ==
    LET found == {q \in DOMAIN person_zones :
                     /\ person_zones[q] # NoZone
                     /\ isIntruder(q, person_zones[q])}
    IN  SetToBag({Event("unauthorized_access", q, person_zones[q], -1, -1,
                        current_time, "high") : q \in found})

appendKeepsOldest(history, entry) ==
    IF Len(history) >= history_maxlen
    THEN history
    ELSE Append(history, entry)

\* deque(maxlen=20).append: the oldest entry is dropped from a full deque
AppendBounded(history, entry) ==
    IF Len(history) >= history_maxlen
    THEN Append(Tail(history), entry)
    ELSE Append(history, entry)

\* lines 165-166: the movements in the recent window
recent_movements(movements, current_time) ==
    SelectSeq(movements, LAMBDA mv : current_time - mv[2] < movement_window)

\* line 172, unique_zones
unique_zones(recent) == {recent[i][1] : i \in 1..Len(recent)}

transitionsZoneChanges(recent) ==
    Cardinality({i \in 1..(Len(recent) - 1) : recent[i][1] # recent[i + 1][1]})

\* line 175
transitions(recent) == Len(recent) - 1

\* line 185
moveSeverity(n) == IF n < 2 * suspicious_movement THEN "medium" ELSE "high"

\* detect_suspicious_movement, lines 156-189
detect_suspicious_movement(current_time) ==
    LET recent(q) == recent_movements(movement_history[q], current_time)
        suspects == {q \in DOMAIN movement_history :
                        /\ Len(movement_history[q]) >= 2
                        /\ Len(recent(q)) >= 2
                        /\ transitions(recent(q)) >= suspicious_movement}
    IN  SetToBag({Event("suspicious_movement", q, NoZone, transitions(recent(q)),
                        Cardinality(unique_zones(recent(q))), current_time,
                        moveSeverity(transitions(recent(q)))) : q \in suspects})

\* update_movement_history(person_id, zone_id), lines 62-67, timestamp=None
UpdateMovementHistory(person_id, zone_id) ==
    /\ movement_history' =
           Put(movement_history, person_id,
               AppendBounded(Get(movement_history, person_id, <<>>),
                             <<zone_id, clock>>))
    /\ appended' = Put(appended, person_id,
                       Append(Get(appended, person_id, <<>>), <<zone_id, clock>>))
    /\ anomalies' = NoScan
    /\ UNCHANGED <<mainVars, analyzerVars, trackerVars, clock, zoneVars, thresholds, last_update>>

\* DetectIdle, DetectOvercrowded, DetectUnauthorized, DetectSuspicious: one
\* call of the rule
detectIdleTouchesTimes ==
    /\ anomalies' = [rule |-> "idle", events |-> detect_idle_time(clock)]
    /\ time_in_zones' = [q \in DOMAIN time_in_zones \cup DOMAIN person_zones |->
                            Get(time_in_zones, q, <<>>)]
    /\ UNCHANGED <<mainVars, analyzerVars, trackerVars, clock, zones, person_zones,
                   zone_entry_times, daily_productive_time, last_update_time,
                   zone_call, dwell, running_update,
                   thresholds, movement_history, appended, last_update>>

\* the four rules, each called on its own
DetectIdle ==
    /\ anomalies' = [rule |-> "idle", events |-> detect_idle_time(clock)]
    /\ UNCHANGED <<mainVars, analyzerVars, trackerVars, clock, zoneVars, thresholds, movement_history, appended, last_update>>

DetectOvercrowded ==
    /\ anomalies' = [rule |-> "overcrowded", events |-> detect_overcrowded_zones(clock)]
    /\ UNCHANGED <<mainVars, analyzerVars, trackerVars, clock, zoneVars, thresholds, movement_history, appended, last_update>>

DetectUnauthorized ==
    /\ anomalies' = [rule |-> "unauthorized", events |-> detect_unauthorized_access(clock)]
    /\ UNCHANGED <<mainVars, analyzerVars, trackerVars, clock, zoneVars, thresholds, movement_history, appended, last_update>>

DetectSuspicious ==
    /\ anomalies' = [rule |-> "movement", events |-> detect_suspicious_movement(clock)]
    /\ UNCHANGED <<mainVars, analyzerVars, trackerVars, clock, zoneVars, thresholds, movement_history, appended, last_update>>

\* the thresholds are rebuilt when more than a minute has passed, line 195
refresh_interval == 60

detectAllOncePerPerson(current_time) ==
    LET idle == detect_idle_time(current_time)
        reported == {ev.person_id : ev \in BagToSet(idle)}
        unauthorized == detect_unauthorized_access(current_time)
    IN  idle (+) detect_overcrowded_zones(current_time)
             (+) SetToBag({ev \in BagToSet(unauthorized) : ev.person_id \notin reported})
             (+) detect_suspicious_movement(current_time)

\* detect_all_anomalies, lines 199-206: the four lists, concatenated
detect_all_anomalies(current_time) ==
    detect_idle_time(current_time)
      (+) detect_overcrowded_zones(current_time)
      (+) detect_unauthorized_access(current_time)
      (+) detect_suspicious_movement(current_time)

\* detect_all_anomalies, lines 191-208: the thresholds are rebuilt first when
\* they are older than a minute, and the rules read the rebuilt ones
DetectAll ==
    /\ ~ (clock - last_update > refresh_interval /\ initialize_raises(zones))
    /\ IF clock - last_update > refresh_interval
       THEN /\ thresholds' = initialize_zone_thresholds(thresholds, zones)
            /\ last_update' = clock
       ELSE UNCHANGED <<thresholds, last_update>>
    /\ UNCHANGED <<mainVars, analyzerVars, trackerVars, clock, zoneVars, movement_history, appended>>
    /\ anomalies' = [rule |-> "all", events |-> detect_all_anomalies(clock)']

\* detect_all_anomalies when the refresh of line 196 raises KeyError: the
\* thresholds written before the raise stay, line 197 and the rules are not
\* reached, and the caller gets the exception
DetectAllRaises ==
    /\ clock - last_update > refresh_interval
    /\ initialize_raises(zones)
    /\ thresholds' = initialize_zone_thresholds(thresholds, zones)
    /\ anomalies' = [rule |-> "KeyError", events |-> EmptyBag]
    /\ UNCHANGED <<mainVars, analyzerVars, trackerVars, clock, zoneVars, movement_history,
                   appended, last_update>>

\* AnomalyDetector(zone_manager), lines 8-36
AnomalyInit ==
    /\ thresholds = initialize_zone_thresholds(
                        [zone_capacity |-> <<>>, unauthorized_access |-> <<>>], zones)
    /\ movement_history = <<>>
    /\ appended = <<>>
    /\ last_update = clock
    /\ anomalies = NoScan

-----------------------------------------------------------------------------
(* The tracking file                                                       *)

NoFile == [text |-> <<>>, time_in_zones |-> <<>>, daily_productive_time |-> <<>>]
NotLoaded == [kind |-> "none", data |-> <<>>]

Digit(d) == <<"0", "1", "2", "3", "4", "5", "6", "7", "8", "9">>[d + 1]
DigitValue(c) == CHOOSE d \in 0..9 : Digit(d) = c

strLastDigit(n) == <<Digit(n % 10)>>

\* str(person_id) of a non-negative int: its decimal digits
RECURSIVE str(_)
str(n) == IF n < 10 THEN <<Digit(n)>> ELSE str(n \div 10) \o <<Digit(n % 10)>>

\* json.dump of a float that holds a whole number of seconds: "5.0"
float_repr(v) == str(v) \o <<".", "0">>

\* json.load of such a number
RECURSIVE digits_value(_, _)
digits_value(text, acc) ==
    IF text = <<>> \/ Head(text) = "." THEN acc
    ELSE digits_value(Tail(text), 10 * acc + DigitValue(Head(text)))

float_parse(text) == digits_value(text, 0)

\* {str(k): v for k, v in d.items()}: of several keys with one string form
\* the dict keeps one entry, that of the key listed last
StrKeyed(d) ==
    [key \in {str(k) : k \in DOMAIN d} |-> d[CHOOSE k \in DOMAIN d : str(k) = key]]

\* save_data, lines 101-112: the object json.dump writes. str(zone_id) of a
\* zone id, a str already, is the zone id.
save_data ==
    LET by_person == StrKeyed(time_in_zones)
        productive == StrKeyed(daily_productive_time)
    IN  [time_in_zones |->
            [key \in DOMAIN by_person |->
                [zone_id \in DOMAIN by_person[key] |->
                    float_repr(by_person[key][zone_id])]],
         daily_productive_time |->
            [key \in DOMAIN productive |-> float_repr(productive[key])]]

\* json.load of the file's text, productivity_analyzer.py lines 25-26
json_load(text) ==
    [time_in_zones |->
        [key \in DOMAIN text.time_in_zones |->
            [zone_id \in DOMAIN text.time_in_zones[key] |->
                float_parse(text.time_in_zones[key][zone_id])]],
     daily_productive_time |->
        [key \in DOMAIN text.daily_productive_time |->
            float_parse(text.daily_productive_time[key])]]

\* tracker.save_data(filename)
SaveData ==
    /\ tracking_file' = [text |-> save_data,
                         time_in_zones |-> time_in_zones,
                         daily_productive_time |-> daily_productive_time]
    /\ loaded' = NotLoaded
    /\ anomalies' = NoScan
    /\ UNCHANGED <<mainVars, trackerVars, clock, zoneVars, thresholds, movement_history,
                   appended, last_update>>

\* analyzer.load_tracking_data(filename), lines 19-31: False when there is no
\* such file
LoadTrackingData ==
    /\ loaded' = IF tracking_file = NoFile
                 THEN [kind |-> "False", data |-> <<>>]
                 ELSE [kind |-> "data", data |-> json_load(tracking_file.text)]
    /\ anomalies' = NoScan
    /\ UNCHANGED <<mainVars, trackerVars, clock, zoneVars, thresholds, movement_history,
                   appended, last_update, tracking_file>>

AnalyzerInit ==
    /\ tracking_file = NoFile
    /\ loaded = NotLoaded

-----------------------------------------------------------------------------
(* CameraStream and the driving loop of main                               *)

\* self.frame before the thread has stored a frame: None
NoFrame == <<>>

\* The frames a source delivers, each written as the detections
\* PersonDetector.detect finds in it: nobody, a person at BoxA, one at BoxD
MainFrames == {<<>>, <<Detection(BoxA)>>, <<Detection(BoxD)>>}

\* the number of frames the source holds at most
MaxFrames == 2

\* main.py line 71
save_interval == 300

\* CameraStream(source).start(), camera.py lines 9-26: the capture is open
\* and the thread runs update
CameraStream ==
    [frame |-> NoFrame, stopped |-> FALSE, released |-> FALSE,
     thread |-> "running", delivered |-> 0]

\* camera.update, lines 30-42: one pass of the thread's loop in which
\* cap.read() returns a frame, stored in self.frame
CameraUpdateFrame(frame) ==
    /\ camera.thread = "running"
    /\ ~ camera.stopped
    /\ ~ camera.released
    /\ camera.delivered < MaxFrames
    /\ camera' = [camera EXCEPT !.frame = <<frame>>, !.delivered = @ + 1]
    /\ UNCHANGED <<main, analyzerVars, trackerVars, clock, zoneVars, anomalyVars>>

\* camera.update, lines 30-34: cap.read() fails, at the end of the video, on
\* a disconnected camera or on a released capture; the thread sets stopped
\* and leaves its loop. self.frame is not assigned.
CameraUpdateEnds ==
    /\ camera.thread = "running"
    /\ ~ camera.stopped
    /\ camera' = [camera EXCEPT !.stopped = TRUE, !.thread = "exited"]
    /\ UNCHANGED <<main, analyzerVars, trackerVars, clock, zoneVars, anomalyVars>>

\* camera.update, line 30: the thread finds stopped set and returns
CameraUpdateStopped ==
    /\ camera.thread = "running"
    /\ camera.stopped
    /\ camera' = [camera EXCEPT !.thread = "exited"]
    /\ UNCHANGED <<main, analyzerVars, trackerVars, clock, zoneVars, anomalyVars>>

\* camera.read(), lines 44-46
camera_read == camera.frame

\* tracker.update(detections) as main calls it (tracker.py lines 58-134): the
\* results the call may have, each with the tracker afterwards, the value
\* returned and the history of the call
tracker_update(detections) ==
    LET st == TrackerState
    IN  IF detections = <<>>
        THEN LET after == MarkDisappeared(st, SortedIds(DOMAIN st.disappeared))
             IN  {[after |-> after,
                   ret |-> [kind |-> "objects", list |-> <<>>],
                   call |-> Record(st, <<>>, {}, {},
                                   DOMAIN st.objects \ DOMAIN after.objects),
                   matched |-> {}]}
        ELSE IF DOMAIN st.objects = {}
        THEN LET after == RegisterAll(st, detections)
             IN  {[after |-> after,
                   ret |-> [kind |-> "list",
                            list |-> TrackedDetections(after.objects, detections)],
                   call |-> Record(st, detections, {}, {}, {}),
                   matched |-> {}]}
        ELSE {LET step == MatchStep(st, detections, pairs)
              IN  [after |-> step.after,
                   ret |-> [kind |-> "list",
                            list |-> TrackedDetections(step.after.objects, detections)],
                   call |-> Record(st, detections, pairs, step.accepted, step.retired),
                   matched |-> {pair[1] : pair \in step.accepted}] :
              pairs \in OptimalAssignments(st, detections)}

\* main() up to line 73: the camera is started, the components are built
\* and the loop is about to run. display is args.display.
MainStarted(display) ==
    [pc |-> "loop", display |-> display, last_save_time |-> Epoch,
     exit |-> "none", shutdown |-> <<>>]

\* lines 75-78: camera.read() returns None and the loop is left
MainEndOfStream ==
    /\ main.pc = "loop"
    /\ camera_read = NoFrame
    /\ main' = [main EXCEPT !.pc = "finally", !.exit = "end"]
    /\ UNCHANGED <<camera, analyzerVars, trackerVars, clock, zoneVars, anomalyVars>>

\* lines 75-81: a frame is read and a call of the loop body raises before
\* the tracker is updated (the detector fails, the user interrupts)
MainRaises ==
    /\ main.pc = "loop"
    /\ camera_read # NoFrame
    /\ main' = [main EXCEPT !.pc = "finally", !.exit = "exception"]
    /\ UNCHANGED <<camera, analyzerVars, trackerVars, clock, zoneVars, anomalyVars>>

\* lines 75-127: a frame is read, its detections are tracked and the zone
\* tracker is updated with what tracker.update returned. When that is the
\* dict of a call without detections and the dict is not empty, line 29 of
\* person_zone_tracker.py raises TypeError on its first key, after lines
\* 22-23 have seeded last_update_time. quit: the display is on and the key
\* read at line 126 is q.
MainIteration(quit) ==
    /\ main.pc = "loop"
    /\ camera_read # NoFrame
    /\ quit => main.display
    /\ \E trk \in tracker_update(camera_read[1]) :
          LET current_time == clock
              seeded == IF last_update_time = NoTime THEN current_time
                        ELSE last_update_time
              time_diff == current_time - seeded
              raises == trk.ret.kind = "objects" /\ DOMAIN trk.after.objects # {}
              after == ProcessAll(ZoneTrackerState, zones, trk.ret.list,
                                  current_time, time_diff)
          IN  /\ Commit(trk.after)
              /\ ret' = trk.ret
              /\ trk_call' = trk.call
              /\ retired_ids' = retired_ids \cup trk.call.retired
              /\ unmatched_ticks' = Ticked(trk.matched, DOMAIN trk.after.objects)
              /\ UNCHANGED <<min_iou, iou_call>>
              /\ IF raises
                 THEN /\ last_update_time' = seeded
                      /\ UNCHANGED <<person_zones, zone_entry_times, time_in_zones,
                                     daily_productive_time, zone_call, dwell>>
                      /\ main' = [main EXCEPT !.pc = "finally", !.exit = "exception"]
                 ELSE /\ person_zones' = after.person_zones
                      /\ zone_entry_times' = after.zone_entry_times
                      /\ time_in_zones' = after.time_in_zones
                      /\ daily_productive_time' = after.daily_productive_time
                      /\ last_update_time' = current_time
                      /\ zone_call' = [detections |-> trk.ret.list, now |-> current_time,
                                       time_diff |-> time_diff]
                      /\ dwell' = Observe(dwell, zones, trk.ret.list, current_time)
                      /\ main' = IF quit
                                 THEN [main EXCEPT !.pc = "finally", !.exit = "quit"]
                                 ELSE [main EXCEPT !.pc = "periodic"]
    /\ anomalies' = NoScan
    /\ UNCHANGED <<camera, analyzerVars, clock, zones, running_update, thresholds,
                   movement_history, appended, last_update>>

\* lines 130-135: the data are saved when more than save_interval has
\* passed since the last periodic save, and the loop starts over
MainPeriodicSave ==
    /\ main.pc = "periodic"
    /\ IF clock - main.last_save_time > save_interval
       THEN /\ tracking_file' = [text |-> save_data,
                                 time_in_zones |-> time_in_zones,
                                 daily_productive_time |-> daily_productive_time]
            /\ loaded' = NotLoaded
            /\ main' = [main EXCEPT !.pc = "loop", !.last_save_time = clock]
       ELSE /\ UNCHANGED analyzerVars
            /\ main' = [main EXCEPT !.pc = "loop"]
    /\ anomalies' = NoScan
    /\ UNCHANGED <<camera, trackerVars, clock, zoneVars, thresholds, movement_history,
                   appended, last_update>>

\* a shutdown that goes on to the final save without calling camera.stop
mainSkipsCameraStop ==
    /\ main.pc = "finally"
    /\ main' = [main EXCEPT !.pc = "stopped"]
    /\ UNCHANGED <<camera, analyzerVars, trackerVars, clock, zoneVars, anomalyVars>>

\* lines 137-141 and camera.stop, camera.py lines 52-56: stopped is set and
\* the capture released
MainCameraStop ==
    /\ main.pc = "finally"
    /\ camera' = [camera EXCEPT !.stopped = TRUE, !.released = TRUE]
    /\ main' = [main EXCEPT !.pc = "stopped", !.shutdown = Append(@, "camera.stop")]
    /\ UNCHANGED <<analyzerVars, trackerVars, clock, zoneVars, anomalyVars>>

\* lines 143-146: zone_tracker.save_data(tracking_data_final.json); main
\* returns, or the exception of the loop goes on to its caller
MainFinalSave ==
    /\ main.pc = "stopped"
    /\ tracking_file' = [text |-> save_data,
                         time_in_zones |-> time_in_zones,
                         daily_productive_time |-> daily_productive_time]
    /\ loaded' = NotLoaded
    /\ main' = [main EXCEPT !.pc = "done", !.shutdown = Append(@, "save_data")]
    /\ anomalies' = NoScan
    /\ UNCHANGED <<camera, trackerVars, clock, zoneVars, thresholds, movement_history,
                   appended, last_update>>

\* main with the display off, as every other specification has it: the
\* loop is not run there
MainInit ==
    /\ camera = CameraStream
    /\ main = MainStarted(FALSE)

-----------------------------------------------------------------------------
(* Specifications                                                          *)

\* The tracker alone, fed one frame after the other
TrackerNext ==
    \/ UpdateNoDetections
    \/ \E detections \in Frames : UpdateRegisterAll(detections)
    \/ \E detections \in Frames : UpdateMatch(detections)

\* Construction, as main.py does it: tracker, zone manager with its zones,
\* zone tracker, anomaly detector
Init == TrackerInit /\ ZoneInit({DefaultZones}) /\ AnomalyInit /\ AnalyzerInit /\ MainInit

SpecTracker == Init /\ [][TrackerNext]_vars

\* The tracker constructed with any min_iou and fed frames with malformed boxes
DegenerateInit ==
    /\ \E configured \in MinIous : SimpleTracker(configured)
    /\ iou_call = NoIouCall
    /\ ZoneInit({DefaultZones})
    /\ AnomalyInit /\ AnalyzerInit /\ MainInit

DegenerateNext ==
    \/ UpdateNoDetections
    \/ \E detections \in DegenerateFrames : UpdateRegisterAll(detections)
    \/ \E detections \in DegenerateFrames : UpdateMatch(detections)

SpecDegenerate == DegenerateInit /\ [][DegenerateNext]_vars

\* The tracker constructed with any min_iou and fed one frame after the other
SpecThreshold == DegenerateInit /\ [][TrackerNext]_vars

\* The tracker fed frames of the boxes in a row
RowNext ==
    \/ UpdateNoDetections
    \/ \E detections \in RowFrames : UpdateRegisterAll(detections)
    \/ \E detections \in RowFrames : UpdateMatch(detections)

SpecRow == Init /\ [][RowNext]_vars

\* calculate_iou alone, called once with any two boxes
IouInit ==
    /\ SimpleTracker(<<min_iou_num, min_iou_den>>)
    /\ \E boxA, boxB \in IouBoxes :
          iou_call = [boxA |-> boxA, boxB |-> boxB, iou |-> NotReturned]
    /\ ZoneInit({DefaultZones})
    /\ AnomalyInit /\ AnalyzerInit /\ MainInit

IouNext == CalculateIou

SpecIou == IouInit /\ [][IouNext]_vars

\* The times of the calls in SpecZone: no two gaps between them are equal
ZoneTimes == {Epoch + 5, Epoch + 12, Epoch + 30}

\* The zone tracker alone, fed lists of tracked detections, each call at a
\* later reading of the clock than the call before
ZoneNext ==
    \/ /\ last_update_time < clock
       /\ \E detections \in TrackedFrames(zones, NumWalkers, MaxTracked) :
             ZoneUpdate(detections)
    \/ Tick(ZoneTimes)

SpecZone == Init /\ [][ZoneNext]_vars

\* The times of the calls in SpecIdle: the gaps between them are 1800, 1801,
\* 3600 and 3601 seconds among others
IdleTimes == {Epoch + 1, Epoch + 1801, Epoch + 3601}

\* The zone tracker, fed one tracked detection per call, and the rules that
\* read the persons' zones and entry times
IdleNext ==
    \/ /\ last_update_time < clock
       /\ \E d \in TrackedInputs(zones, NumPersons) : ZoneUpdate(<<d>>)
    \/ Tick(IdleTimes)
    \/ DetectIdle
    \/ DetectUnauthorized

\* Construction over the zones of main.py or over a zones file with an
\* owned desk
IdleInit == TrackerInit /\ ZoneInit({DefaultZones, OwnedDeskZones}) /\ AnomalyInit /\ AnalyzerInit /\ MainInit

SpecIdle == IdleInit /\ [][IdleNext]_vars

\* update in one thread, the idle and the overcrowding scan in another: the
\* scans may run between any two passes of update's loop. A frame holds the
\* persons 0 .. k-1 once each.
ThreadsNext ==
    \/ /\ last_update_time < clock
       /\ \E detections \in CrowdFrames(zones, NumPersons) : UpdateBegin(detections)
    \/ UpdateStep
    \/ UpdateEnd
    \/ Tick({Epoch + idle_time + 1})
    \/ DetectIdle
    \/ DetectOvercrowded

ThreadsInit == TrackerInit /\ ZoneInit({DefaultZones}) /\ AnomalyInit /\ AnalyzerInit /\ MainInit

SpecThreads == ThreadsInit /\ [][ThreadsNext]_vars

\* The dwell tracker fed frames of two persons whose identities
\* end in the same digit, saved to the tracking file and loaded from it
FilePersons == {1, 11}

FileNext ==
    \/ /\ last_update_time < clock
       /\ \E detections \in SeqsUpTo({TrackedAt(q, point) :
                                           q \in FilePersons, point \in Spots(zones)},
                                       MaxTracked) :
             ZoneUpdate(detections)
    \/ Tick({Epoch + 5, Epoch + 12})
    \/ SaveData
    \/ LoadTrackingData

\* a floor with a desk and a break area
FileInit == TrackerInit /\ ZoneInit({<<Desk1, Break1>>}) /\ AnomalyInit /\ AnalyzerInit /\ MainInit

SpecFile == FileInit /\ [][FileNext]_vars

\* Zones are deleted while persons are followed through them; the persons
\* stand where the zones of main.py are or were
DeleteNext ==
    \/ /\ last_update_time < clock
       /\ \E d \in TrackedInputs(DefaultZones, NumPersons) : ZoneUpdate(<<d>>)
    \/ Tick(ZoneTimes)
    \/ \E i \in 1..Len(zones) : DeleteZone(zones[i].id)

SpecDelete == Init /\ [][DeleteNext]_vars

\* The zones are loaded anew from a zones file now and then, and
\* detect_all_anomalies is called at intervals of a minute and a second.
\* One person is placed by a first update, called while every zone has its
\* type (is_productive_zone reads it).
RefreshTimes == {Epoch + 61, Epoch + 122, Epoch + 183}

RefreshNext ==
    \/ /\ last_update_time = NoTime
       /\ ~ initialize_raises(zones)
       /\ \E d \in TrackedInputs(DefaultZones, NumWalkers) : ZoneUpdate(<<d>>)
    \/ \E file \in ZoneFiles : LoadZones(file)
    \/ Tick(RefreshTimes)
    \/ DetectAll
    \/ DetectAllRaises

SpecRefresh == Init /\ [][RefreshNext]_vars

\* A first frame that holds a crowd, then single persons moving at a later
\* time, and the rules that read only the persons' zones
CrowdNext ==
    \/ /\ last_update_time = NoTime
       /\ \E detections \in CrowdFrames(zones, MaxCrowd) : ZoneUpdate(detections)
    \/ /\ last_update_time # NoTime
       /\ last_update_time < clock
       /\ \E d \in TrackedInputs(zones, MaxCrowd) : ZoneUpdate(<<d>>)
    \/ Tick({Epoch + 5})
    \/ DetectOvercrowded
    \/ DetectUnauthorized

\* Construction over a zones file with a single zone
CrowdInit == TrackerInit /\ ZoneInit({<<Break1>>, <<OwnedDesk1>>}) /\ AnomalyInit /\ AnalyzerInit /\ MainInit

SpecCrowd == CrowdInit /\ [][CrowdNext]_vars

\* movement-history entries of one person in SpecMove
MaxMoves == 11
\* The times of the calls in SpecMove: the gaps are 599, 600 and 1 seconds
MoveTimes == {Epoch + 1, Epoch + 600}

\* The movement history, filled entry by entry, and the rule that reads it
MoveNext ==
    \/ \E zone_id \in {"desk1", "break1"} :
          /\ Len(Get(movement_history, 0, <<>>)) < MaxMoves
          /\ UpdateMovementHistory(0, zone_id)
    \/ Tick(MoveTimes)
    \/ DetectSuspicious

SpecMove == Init /\ [][MoveNext]_vars

\* movement-history entries of one person in SpecAll
AllMoves == 6

\* Construction over a zones file with an owned desk
AllInit == TrackerInit /\ ZoneInit({OwnedDeskZones}) /\ AnomalyInit /\ AnalyzerInit /\ MainInit

\* The zone tracker fed one tracked detection per call, the movement history
\* of person 0 filled entry by entry, and the scan that runs all four rules
AllNext ==
    \/ /\ last_update_time < clock
       /\ \E d \in TrackedInputs(zones, NumPersons) : ZoneUpdate(<<d>>)
    \/ /\ Len(Get(movement_history, 0, <<>>)) < AllMoves
       /\ UpdateMovementHistory(0, "desk1")
    \/ Tick({Epoch + 1801})
    \/ DetectAll

SpecAll == AllInit /\ [][AllNext]_vars

\* As SpecAll, with each of the four rules also called on its own
ScansNext ==
    \/ AllNext
    \/ DetectIdle
    \/ DetectOvercrowded
    \/ DetectUnauthorized
    \/ DetectSuspicious

SpecScans == AllInit /\ [][ScansNext]_vars

\* update_movement_history calls for one person in SpecHistory
MaxAppends == 22

\* The movement history of person 0 alone, filled past the length of its deque
HistoryNext ==
    \/ /\ Len(Get(appended, 0, <<>>)) < MaxAppends
       /\ UpdateMovementHistory(0, "desk1")
    \/ Tick(MoveTimes)

SpecHistory == Init /\ [][HistoryNext]_vars

\* The times main reads: the second is more than save_interval after the
\* start
MainTimes == {Epoch + 5, Epoch + save_interval + 6}

\* The program as main runs it, with the display on or off: the camera
\* thread beside the driving loop
MainRunInit ==
    /\ TrackerInit /\ ZoneInit({DefaultZones}) /\ AnomalyInit /\ AnalyzerInit
    /\ camera = CameraStream
    /\ \E display \in BOOLEAN : main = MainStarted(display)

CameraNext ==
    \/ \E frame \in MainFrames : CameraUpdateFrame(frame)
    \/ CameraUpdateEnds
    \/ CameraUpdateStopped

MainLoopNext ==
    \/ MainEndOfStream
    \/ \E quit \in BOOLEAN : MainIteration(quit)
    \/ MainPeriodicSave

MainShutdownNext ==
    \/ MainCameraStop
    \/ MainFinalSave

MainNext ==
    \/ CameraNext
    \/ MainLoopNext
    \/ MainRaises
    \/ MainShutdownNext
    \/ Tick(MainTimes)

SpecMain == MainRunInit /\ [][MainNext]_vars

\* The program left alone: the display is off, so there is no quit key, and
\* nothing outside the tracker and the zone tracker raises. Every thread
\* that can run does run.
StreamInit ==
    /\ TrackerInit /\ ZoneInit({DefaultZones}) /\ AnomalyInit /\ AnalyzerInit
    /\ camera = CameraStream
    /\ main = MainStarted(FALSE)

StreamNext ==
    \/ CameraNext
    \/ MainLoopNext
    \/ MainShutdownNext
    \/ Tick(MainTimes)

SpecStream ==
    /\ StreamInit /\ [][StreamNext]_vars
    /\ WF_vars(CameraNext)
    /\ WF_vars(MainLoopNext)
    /\ WF_vars(MainShutdownNext)

-----------------------------------------------------------------------------
(* Claims about SimpleTracker                                              *)

\* the detections of the last call that were registered as new tracks
FreshDetections == {j \in 1..Len(trk_call.detections) :
                       ~ \E p \in trk_call.accepted : p[2] = j}

\* C1: every newly registered track gets an identity strictly greater than
\* every identity assigned before it (the active ones and the retired ones),
\* so a retired identity is never assigned again.
C1_FreshIdentityAboveAllEarlier ==
    [][\A id \in (DOMAIN objects') \ (DOMAIN objects) :
          \A old \in (DOMAIN objects) \cup retired_ids : id > old]_vars

\* C1 witness: a call registered a track after some track had been retired
\* by an earlier call.
C1_Witness ==
    /\ FreshDetections # {}
    /\ retired_ids \ trk_call.retired # {}
    /\ \E j \in FreshDetections : trk_call.assigned[j] \in DOMAIN objects

\* C2: the identity returned for each detection is the one the assignment
\* gave it: the matched track's, or the fresh one it was registered under.
C2_ReturnedIdentityIsAssigned ==
    ret.kind = "list" =>
        \A j \in 1..Len(ret.list) : ret.list[j][1] = trk_call.assigned[j]

\* C5: one detection, two active tracks T1 and T2, IoU with T1 at least
\* min_iou and with T2 below it: the detection is returned under T1's
\* identity, T1 takes the detection's box with missed_frames 0, and T2's
\* missed_frames goes up by one (T2 is retired when that passes
\* max_disappeared), whichever of the two has the lower identity.
C5_OneDetectionTwoTracks ==
    [][\A T1, T2 \in DOMAIN objects :
          LET detections == trk_call'.detections
              box == BoxOf(detections[1])
          IN  (/\ Len(detections) = 1
               /\ DOMAIN objects = {T1, T2}
               /\ T1 # T2
               /\ AboveMinIou(calculate_iou(objects[T1], box))
               /\ ~ AboveMinIou(calculate_iou(objects[T2], box)))
              =>
              (/\ ret'.kind = "list"
               /\ ret'.list[1][1] = T1
               /\ T1 \in DOMAIN objects'
               /\ objects'[T1] = box
               /\ disappeared'[T1] = 0
               /\ IF disappeared[T2] + 1 > max_disappeared
                  THEN T2 \notin DOMAIN objects'
                  ELSE /\ T2 \in DOMAIN objects'
                       /\ disappeared'[T2] = disappeared[T2] + 1
                       /\ objects'[T2] = objects[T2])]_vars

\* C6: after every update the number of active tracks is the number before,
\* minus the tracks the call retired, plus the tracks it registered; the
\* track-box map and the missed-frames map always have the same keys.
C6_ActiveCount ==
    /\ DOMAIN objects = DOMAIN disappeared
    /\ [][/\ DOMAIN objects' = DOMAIN disappeared'
          /\ Cardinality(DOMAIN objects') =
                Cardinality(DOMAIN objects)
                  - Cardinality(trk_call'.retired)
                  + Cardinality({j \in 1..Len(trk_call'.detections) :
                                    ~ \E p \in trk_call'.accepted : p[2] = j})]_vars

\* C6 witness: a call that retired a track and registered another.
C6_Witness ==
    /\ trk_call.retired # {}
    /\ FreshDetections # {}
    /\ DOMAIN objects # {}

-----------------------------------------------------------------------------
(* Claims about PersonZoneTracker                                          *)

\* the zones the detections of a list resolve to for one person
ObservedZones(detections, person_id) ==
    {get_zone_for_point(zones, <<detections[j][2], detections[j][3]>>) :
        j \in {i \in 1..Len(detections) : detections[i][1] = person_id}}

\* C3: a person observed in zone Z without a break since time t0: an update
\* in which every observation of the person is in Z (or that does not hold
\* the person) leaves get_time_in_zone(person, Z) unchanged, and the update
\* at t1 that observes the person elsewhere, in another zone or in none,
\* adds exactly t1 - t0 to it.
C3_DwellTimeConserved ==
    [][last_update_time' # last_update_time =>
        \A q \in DOMAIN dwell :
            LET Z == dwell[q].zone
                t0 == dwell[q].since
                t1 == zone_call'.now
                seen == ObservedZones(zone_call'.detections, q)
            IN  Z # NoZone =>
                  IF seen \subseteq {Z}
                  THEN Get(Get(time_in_zones', q, <<>>), Z, 0) = get_time_in_zone(q, Z)
                  ELSE Get(Get(time_in_zones', q, <<>>), Z, 0) =
                          get_time_in_zone(q, Z) + (t1 - t0)]_vars

\* C3 witness: the person entered the desk at Epoch + 5, was observed there
\* again at Epoch + 12 and left it at Epoch + 30: 25 seconds at the desk.
C3_Witness ==
    /\ zone_call.now = Epoch + 30
    /\ 0 \in DOMAIN person_zones
    /\ person_zones[0] # "desk1"
    /\ get_time_in_zone(0, "desk1") = 25
    /\ get_productive_time(0) = 32

\* C4: two consecutive update calls e seconds apart in both of which a known
\* person resolves to the same zone, not none: the second call adds exactly
\* e to the person's productive time when the zone is a desk or a meeting
\* room, and nothing otherwise.
C4_SameZoneAddsElapsed ==
    [][(last_update_time' # last_update_time /\ last_update_time # NoTime) =>
        \A q \in DOMAIN person_zones :
            LET Z == person_zones[q]
                e == zone_call'.now - zone_call.now
                productive == ZoneById(zones, Z).type \in {"desk", "meeting_room"}
            IN  (/\ Z # NoZone
                 /\ ObservedZones(zone_call.detections, q) = {Z}
                 /\ ObservedZones(zone_call'.detections, q) = {Z})
                =>
                Get(daily_productive_time', q, 0) =
                    get_productive_time(q) + (IF productive THEN e ELSE 0)]_vars

-----------------------------------------------------------------------------
(* Claims about AnomalyDetector                                            *)

\* the events of the last detect_* call, and those about one person or zone
Events == BagToSet(anomalies.events)
EventsAbout(person_id) == {ev \in Events : ev.person_id = person_id}
EventsAt(zone_id) == {ev \in Events : ev.zone_id = zone_id}

\* C7: detect_idle_time returns one idle event for a person exactly when the
\* person's current zone is not none, an entry time is recorded for that
\* zone and now - entry_time > 1800; the event is high when
\* now - entry_time > 3600 and medium otherwise.
C7_IdleEvents ==
    anomalies.rule = "idle" =>
      /\ \A ev \in Events :
            /\ ev.type = "idle_person"
            /\ ev.person_id \in DOMAIN person_zones
            /\ CopiesIn(ev, anomalies.events) = 1
      /\ \A q \in DOMAIN person_zones :
            LET Z == person_zones[q]
                recorded == /\ Z # NoZone
                            /\ q \in DOMAIN zone_entry_times
                            /\ Z \in DOMAIN zone_entry_times[q]
                age == clock - zone_entry_times[q][Z]
            IN  IF recorded /\ age > 1800
                THEN \E ev \in Events :
                        /\ EventsAbout(q) = {ev}
                        /\ ev.zone_id = Z
                        /\ ev.metric = age
                        /\ ev.severity = (IF age > 3600 THEN "high" ELSE "medium")
                ELSE EventsAbout(q) = {}

\* C7 witness: one call reports a person idle for 3601 seconds as high and
\* another idle for exactly 3600 seconds as medium.
C7_Witness ==
    /\ anomalies.rule = "idle"
    /\ \E ev \in Events : ev.metric = 3601 /\ ev.severity = "high"
    /\ \E ev \in Events : ev.metric = 3600 /\ ev.severity = "medium"

\* C7 witness of the lower boundary: a person idle for exactly 1800 seconds
\* is not reported while another, idle for 1801 seconds, is.
C7_WitnessThreshold ==
    /\ anomalies.rule = "idle"
    /\ \E q \in DOMAIN person_zones :
          /\ person_zones[q] # NoZone
          /\ clock - zone_entry_times[q][person_zones[q]] = 1800
          /\ EventsAbout(q) = {}
    /\ \E ev \in Events : ev.metric = 1801 /\ ev.severity = "medium"

\* C8: detect_overcrowded_zones returns exactly one event for every zone
\* whose number of current occupants is above the zone's capacity and none
\* for any other zone; the event is high when the count is above
\* capacity + 2 and medium otherwise. With capacity 4 (a break area), 5 and
\* 6 occupants give medium and 7 give high.
C8_OvercrowdedEvents ==
    anomalies.rule = "overcrowded" =>
      /\ \A ev \in Events :
            /\ ev.type = "overcrowded_zone"
            /\ HasZone(zones, ev.zone_id)
            /\ CopiesIn(ev, anomalies.events) = 1
      /\ \A i \in 1..Len(zones) :
            LET Z == zones[i].id
                count == Cardinality({q \in DOMAIN person_zones : person_zones[q] = Z})
                capacity == thresholds.zone_capacity[Z]
            IN  /\ IF count > capacity
                   THEN \E ev \in Events :
                           /\ EventsAt(Z) = {ev}
                           /\ ev.metric = count
                           /\ ev.severity =
                                 (IF count > capacity + 2 THEN "high" ELSE "medium")
                   ELSE EventsAt(Z) = {}
                /\ zones[i].type = "break_area" =>
                      /\ count <= 4 => EventsAt(Z) = {}
                      /\ count \in {5, 6} => \E ev \in EventsAt(Z) : ev.severity = "medium"
                      /\ count >= 7 => \E ev \in EventsAt(Z) : ev.severity = "high"

\* C8 witness: seven persons in the break area, reported as high.
C8_Witness ==
    /\ anomalies.rule = "overcrowded"
    /\ Cardinality({q \in DOMAIN person_zones : person_zones[q] = "break1"}) = 7
    /\ \E ev \in Events : ev.zone_id = "break1" /\ ev.severity = "high"

\* C9: detect_unauthorized_access returns a high event for exactly the
\* persons whose current zone has a non-empty list of authorized persons
\* that does not hold them; a person in a zone with an empty list, or in no
\* zone, is never reported.
C9_UnauthorizedEvents ==
    anomalies.rule = "unauthorized" =>
      /\ \A ev \in Events :
            /\ ev.type = "unauthorized_access"
            /\ ev.severity = "high"
            /\ ev.person_id \in DOMAIN person_zones
            /\ ev.zone_id = person_zones[ev.person_id]
            /\ CopiesIn(ev, anomalies.events) = 1
      /\ \A q \in DOMAIN person_zones :
            LET Z == person_zones[q]
                authorized == IF Z \in DOMAIN thresholds.unauthorized_access
                              THEN {thresholds.unauthorized_access[Z][i] :
                                      i \in 1..Len(thresholds.unauthorized_access[Z])}
                              ELSE {}
            IN  IF Z # NoZone /\ authorized # {} /\ q \notin authorized
                THEN Cardinality(EventsAbout(q)) = 1
                ELSE EventsAbout(q) = {}

\* C9 witness: persons 0 and 1 are both at the desk of person 1; person 0 is
\* reported and person 1 is not.
C9_Witness ==
    /\ anomalies.rule = "unauthorized"
    /\ DOMAIN person_zones = {0, 1}
    /\ person_zones[0] = "desk1" /\ person_zones[1] = "desk1"
    /\ thresholds.unauthorized_access["desk1"] = <<1>>
    /\ EventsAbout(0) # {} /\ EventsAbout(1) = {}

C10_WitnessWindow ==
    /\ anomalies.rule = "movement"
    /\ \E q \in DOMAIN movement_history :
          /\ \E i \in 1..Len(movement_history[q]) : clock - movement_history[q][i][2] = 600
          /\ \E ev \in EventsAbout(q) :
                /\ ev.metric = 6 /\ ev.extra = 1 /\ ev.severity = "medium"
                /\ ev.metric < Len(movement_history[q]) - 1

\* C11: the events detect_all_anomalies returns are those of the idle, the
\* overcrowded, the unauthorized and the suspicious-movement rule on the
\* state it ran on, each as often as its rule returns it: no event of a rule
\* is dropped or changed because another rule reports the same person or
\* zone.
C11_AllRulesConcatenated ==
    anomalies.rule = "all" =>
      LET idle == detect_idle_time(clock)
          crowded == detect_overcrowded_zones(clock)
          unauthorized == detect_unauthorized_access(clock)
          moving == detect_suspicious_movement(clock)
          every == BagToSet(idle) \cup BagToSet(crowded)
                     \cup BagToSet(unauthorized) \cup BagToSet(moving)
      IN  /\ Events = every
          /\ \A ev \in every :
                CopiesIn(ev, anomalies.events) =
                    CopiesIn(ev, idle) + CopiesIn(ev, crowded)
                      + CopiesIn(ev, unauthorized) + CopiesIn(ev, moving)

\* C11 witness: one scan reports person 0 as idle, as unauthorized at the
\* desk of person 1 and as moving suspiciously, and the desk as overcrowded.
C11_Witness ==
    /\ anomalies.rule = "all"
    /\ {ev.type : ev \in EventsAbout(0)} =
          {"idle_person", "unauthorized_access", "suspicious_movement"}
    /\ \E ev \in EventsAt("desk1") : ev.type = "overcrowded_zone"

\* C12: every known person has one current zone or none; an entry time is
\* recorded for the person's current zone when that zone is not none, and no
\* entry time is recorded for a person whose current zone is none.
C12_EntryTimeIffInZone ==
    \A q \in DOMAIN person_zones :
        LET recorded == DOMAIN Get(zone_entry_times, q, <<>>)
        IN  IF person_zones[q] # NoZone
            THEN person_zones[q] \in recorded
            ELSE recorded = {}

\* C13: with the clock never running backwards between update calls, no
\* step lowers the time in a zone of any person and zone or the productive
\* time of any person.
C13_TimesNeverDecrease ==
    [][(clock' >= clock /\ last_update_time' >= last_update_time) =>
        /\ \A q \in DOMAIN time_in_zones : \A z \in DOMAIN time_in_zones[q] :
              Get(Get(time_in_zones', q, <<>>), z, 0) >= time_in_zones[q][z]
        /\ \A q \in DOMAIN daily_productive_time :
              Get(daily_productive_time', q, 0) >= daily_productive_time[q]]_vars

\* C13 witness: two stays at the desk, of 5 and of 18 seconds, have been
\* added up.
C13_Witness ==
    /\ get_time_in_zone(0, "desk1") = 23
    /\ get_productive_time(0) >= 23

\* C14: every update call appends, for each tracked person of its list, the
\* zone the person resolved to and the time of the call to that person's
\* movement history, whether or not the zone changed.
C14_UpdateAppendsMovement ==
    [][last_update_time' # last_update_time =>
        \A j \in 1..Len(zone_call'.detections) :
            LET q == zone_call'.detections[j][1]
                history == Get(movement_history', q, <<>>)
            IN  q >= 0 =>
                  /\ Len(history) > Len(Get(movement_history, q, <<>>))
                  /\ history[Len(history)] = <<person_zones'[q], zone_call'.now>>]_vars

\* C15: after any number n of update_movement_history calls for a person,
\* the person's history holds at most 20 entries: the min(n, 20) entries
\* appended last, in the order they were appended.
C15_HistoryKeepsLastTwenty ==
    /\ DOMAIN movement_history = DOMAIN appended
    /\ \A q \in DOMAIN movement_history :
          LET n == Len(appended[q])
              kept == IF n < 20 THEN n ELSE 20
          IN  /\ Len(movement_history[q]) = kept
              /\ \A i \in 1..kept :
                    movement_history[q][i] = appended[q][n - kept + i]

\* C15 witness: 22 entries were appended, the two oldest are gone and the
\* oldest kept one is younger than the oldest appended one.
C15_Witness ==
    /\ 0 \in DOMAIN appended
    /\ Len(appended[0]) = 22
    /\ Len(movement_history[0]) = 20
    /\ movement_history[0][1][2] > appended[0][1][2]

\* the persons a list of tracked detections holds
PersonsIn(detections) == {detections[j][1] : j \in 1..Len(detections)}

\* C16: an update call leaves the current zone, the entry times, the times
\* in zones and the productive time of every known person that is not in
\* its list as they were; such a person stays counted in its zone.
C16_AbsentPersonUntouched ==
    [][last_update_time' # last_update_time =>
        \A q \in (DOMAIN person_zones) \ PersonsIn(zone_call'.detections) :
            /\ q \in DOMAIN person_zones'
            /\ person_zones'[q] = person_zones[q]
            /\ (q \in DOMAIN zone_entry_times') = (q \in DOMAIN zone_entry_times)
            /\ Get(zone_entry_times', q, <<>>) = Get(zone_entry_times, q, <<>>)
            /\ (q \in DOMAIN time_in_zones') = (q \in DOMAIN time_in_zones)
            /\ Get(time_in_zones', q, <<>>) = Get(time_in_zones, q, <<>>)
            /\ (q \in DOMAIN daily_productive_time') = (q \in DOMAIN daily_productive_time)
            /\ Get(daily_productive_time', q, 0) = Get(daily_productive_time, q, 0)
            /\ person_zones[q] # NoZone =>
                  Cardinality({r \in DOMAIN person_zones' :
                                  person_zones'[r] = person_zones[q]}) >= 1]_vars

\* C16 witness: a person that entered a zone at Epoch is not in the list of
\* the call at Epoch + 3601, in which another person enters a zone; it is
\* still in its zone, with its entry time, and counted there.
C16_Witness ==
    /\ zone_call.now = Epoch + 3601
    /\ \E q \in (DOMAIN person_zones) \ PersonsIn(zone_call.detections) :
          /\ person_zones[q] # NoZone
          /\ zone_entry_times[q][person_zones[q]] = Epoch
          /\ get_zone_occupancy(person_zones[q]) >= 1
    /\ \E r \in PersonsIn(zone_call.detections) :
          /\ r >= 0
          /\ person_zones[r] # NoZone
          /\ zone_entry_times[r][person_zones[r]] = Epoch + 3601

-----------------------------------------------------------------------------
(* calculate_iou                                                           *)

\* A box as the set of the quarter-unit cells it covers: the cell <<i, j>> is
\* the square [i/2, (i+1)/2] x [j/2, (j+1)/2]. A box with positive sides and
\* whole coordinates is a union of such cells.
Cells(box) ==
    {<<i, j>> \in ((2 * box[1] - box[3]) .. (2 * box[1] + box[3] - 1))
                    \X ((2 * box[2] - box[4]) .. (2 * box[2] + box[4] - 1)) : TRUE}

Positive(box) == box[3] > 0 /\ box[4] > 0

\* two fractions of positive denominator are the same number
FracEq(p, q) == p[1] * q[2] = q[1] * p[2]

Returned == iou_call.boxA # <<>> /\ iou_call.iou # NotReturned

\* C17: calculate_iou of a box of positive width and height with itself is 1,
\* and calculate_iou(A, B) is calculate_iou(B, A) for all boxes A and B.
C17_IouReflexiveSymmetric ==
    Returned =>
        /\ (iou_call.boxA = iou_call.boxB /\ Positive(iou_call.boxA))
              => FracEq(iou_call.iou, <<1, 1>>)
        /\ FracEq(iou_call.iou, calculate_iou(iou_call.boxB, iou_call.boxA))

\* calculate_iou has returned for two different boxes that overlap in part
C17_Witness ==
    /\ Returned
    /\ iou_call.boxA # iou_call.boxB
    /\ Positive(iou_call.boxA) /\ Positive(iou_call.boxB)
    /\ iou_call.iou[1] > 0
    /\ iou_call.iou[1] < iou_call.iou[2]

\* calculate_iou has returned for a box of positive sides and itself
C17_WitnessSame ==
    /\ Returned
    /\ iou_call.boxA = iou_call.boxB
    /\ Positive(iou_call.boxA)

\* area(A intersect B), area(A) and area(B), counted in quarter-unit cells
InterCells(boxA, boxB) == Cardinality(Cells(boxA) \cap Cells(boxB))
AreaCells(box) == Cardinality(Cells(box))

\* The rectangles have no inner point in common: one lies to the left of,
\* or above, the other, their edges or corners possibly touching.
Apart(boxA, boxB) ==
    \/ 2 * boxA[1] + boxA[3] <= 2 * boxB[1] - boxB[3]
    \/ 2 * boxB[1] + boxB[3] <= 2 * boxA[1] - boxA[3]
    \/ 2 * boxA[2] + boxA[4] <= 2 * boxB[2] - boxB[4]
    \/ 2 * boxB[2] + boxB[4] <= 2 * boxA[2] - boxA[4]

\* C18: for boxes A and B of positive width and height, calculate_iou returns
\* area(A intersect B) / (area(A) + area(B) - area(A intersect B)), a number
\* in [0, 1], and 0 when the rectangles do not overlap, touching included.
C18_IouIsIntersectionOverUnion ==
    (Returned /\ Positive(iou_call.boxA) /\ Positive(iou_call.boxB)) =>
        LET boxA == iou_call.boxA
            boxB == iou_call.boxB
            inter == InterCells(boxA, boxB)
        IN  /\ FracEq(iou_call.iou,
                      <<inter, AreaCells(boxA) + AreaCells(boxB) - inter>>)
            /\ 0 <= iou_call.iou[1]
            /\ iou_call.iou[1] <= iou_call.iou[2]
            /\ Apart(boxA, boxB) => iou_call.iou[1] = 0

\* calculate_iou has returned for two boxes of positive sides that touch
\* along an edge: B begins in x where A ends, and they share a range of y
C18_Witness ==
    /\ Returned
    /\ Positive(iou_call.boxA) /\ Positive(iou_call.boxB)
    /\ 2 * iou_call.boxA[1] + iou_call.boxA[3] = 2 * iou_call.boxB[1] - iou_call.boxB[3]
    /\ iou_call.boxA[2] = iou_call.boxB[2]

\* ... that touch at one corner only
C18_WitnessCorner ==
    /\ Returned
    /\ Positive(iou_call.boxA) /\ Positive(iou_call.boxB)
    /\ 2 * iou_call.boxA[1] + iou_call.boxA[3] = 2 * iou_call.boxB[1] - iou_call.boxB[3]
    /\ 2 * iou_call.boxA[2] + iou_call.boxA[4] = 2 * iou_call.boxB[2] - iou_call.boxB[4]

\* ... that lie apart with a gap in x and in y
C18_WitnessGap ==
    /\ Returned
    /\ Positive(iou_call.boxA) /\ Positive(iou_call.boxB)
    /\ 2 * iou_call.boxA[1] + iou_call.boxA[3] < 2 * iou_call.boxB[1] - iou_call.boxB[3]
    /\ 2 * iou_call.boxA[2] + iou_call.boxA[4] < 2 * iou_call.boxB[2] - iou_call.boxB[4]

-----------------------------------------------------------------------------
(* Malformed boxes                                                         *)

\* C19: calculate_iou of a box of zero or negative width or height and any
\* other box is 0, and whatever min_iou in [0, 1] the tracker was constructed
\* with, update accepts no match in which the track's box or the detection's
\* box is such a box: the detection is registered, the track counts as unmatched.
C19_DegenerateNeverMatched ==
    [][\A p \in trk_call'.accepted :
          /\ ~ Degenerate(objects[p[1]])
          /\ ~ Degenerate(BoxOf(trk_call'.detections[p[2]]))]_vars

\* calculate_iou of a malformed box and any other box is 0
C19_DegenerateIouIsZero ==
    (Returned /\ (Degenerate(iou_call.boxA) \/ Degenerate(iou_call.boxB)))
        => iou_call.iou[1] = 0

-----------------------------------------------------------------------------
(* Scans from another thread                                               *)

\* C20: an anomaly scan that runs in another thread than update never sees
\* the dwell state with some persons of the running update processed and
\* others not: the maps it reads are those from before the update or those
\* the whole update leaves.
C20_ScanSeesWholeUpdates ==
    [][(anomalies' # NoScan /\ running_update # NoUpdate) =>
          ZoneTrackerState \in
              {running_update.before,
               ProcessAll(running_update.before, zones, running_update.detections,
                          running_update.now, running_update.time_diff)}]_vars

-----------------------------------------------------------------------------
(* The tracking file                                                       *)

\* C21: what load_tracking_data reads back from the file save_data wrote is
\* the tracker's time_in_zones and daily_productive_time of the time of
\* writing with every identity replaced by its string form (a zone id is its
\* own): as many entries, none lost, added or merged, and every number equal.
C21_SaveLoadRoundTrip ==
    loaded.kind = "data" =>
        LET tz == tracking_file.time_in_zones
            pt == tracking_file.daily_productive_time
            got == loaded.data
        IN  /\ DOMAIN got.time_in_zones = {str(q) : q \in DOMAIN tz}
            /\ Cardinality(DOMAIN got.time_in_zones) = Cardinality(DOMAIN tz)
            /\ \A q \in DOMAIN tz :
                  /\ DOMAIN got.time_in_zones[str(q)] = DOMAIN tz[q]
                  /\ \A z \in DOMAIN tz[q] : got.time_in_zones[str(q)][z] = tz[q][z]
            /\ DOMAIN got.daily_productive_time = {str(q) : q \in DOMAIN pt}
            /\ Cardinality(DOMAIN got.daily_productive_time) = Cardinality(DOMAIN pt)
            /\ \A q \in DOMAIN pt : got.daily_productive_time[str(q)] = pt[q]

\* a file that holds times of both persons was loaded after the tracker
\* had moved on
C21_Witness ==
    /\ loaded.kind = "data"
    /\ Cardinality(DOMAIN loaded.data.time_in_zones) = 2
    /\ Cardinality(DOMAIN loaded.data.daily_productive_time) = 2
    /\ time_in_zones # tracking_file.time_in_zones

-----------------------------------------------------------------------------
(* Zones that are gone                                                     *)

\* the number of detections of the person in the list
Occurrences(detections, person_id) ==
    Cardinality({j \in 1..Len(detections) : detections[j][1] = person_id})

\* C22: an update for a person whose zone is no longer among the zones (it
\* was deleted while the person was in it) adds nothing to the person's
\* productive time, neither as time in the same zone nor as the time flushed
\* on leaving, and the call completes.
C22_MissingZoneNotProductive ==
    [][zone_call' # zone_call =>
          \A q \in DOMAIN person_zones :
              (/\ person_zones[q] # NoZone
               /\ ~ HasZone(zones, person_zones[q])
               /\ Occurrences(zone_call'.detections, q) = 1)
                  => /\ get_productive_time(q)' = get_productive_time(q)
                     /\ q \in DOMAIN person_zones']_vars

\* a person was seen elsewhere after the desk it sat at was deleted: the
\* time at the desk was flushed to time_in_zones and not to productive time
C22_Witness ==
    \E q \in DOMAIN person_zones :
        /\ ~ HasZone(zones, "desk1")
        /\ get_time_in_zone(q, "desk1") > 0
        /\ get_productive_time(q) = 0
        /\ person_zones[q] # "desk1"

-----------------------------------------------------------------------------
(* The refresh of the thresholds                                           *)

\* the cached capacity and allowed persons of a zone id, None when there are none
CachedCapacity(th, zone_id) == Get(th.zone_capacity, zone_id, -1)
CachedAllowed(th, zone_id) == Get(th.unauthorized_access, zone_id, <<-1>>)

\* the step is a detect_all_anomalies call that refreshes the thresholds
RefreshingCall ==
    /\ anomalies' # NoScan
    /\ anomalies'.rule \notin {"idle", "overcrowded", "unauthorized", "movement"}
    /\ clock - last_update > refresh_interval

\* C23: a refresh that meets a zone without type or name, or a cached zone
\* that is no longer among the zones, does not raise: it leaves the cached
\* capacity and allowed persons of that zone as they were, refreshes every
\* other zone, and the scan completes.
C23_RefreshToleratesBadZones ==
    [][RefreshingCall =>
          /\ anomalies'.rule = "all"
          /\ \A zone_id \in DOMAIN thresholds.zone_capacity :
                (~ HasZone(zones, zone_id) \/ RaisesKeyError(ZoneById(zones, zone_id)))
                   => /\ CachedCapacity(thresholds', zone_id) = CachedCapacity(thresholds, zone_id)
                      /\ CachedAllowed(thresholds', zone_id) = CachedAllowed(thresholds, zone_id)
          /\ \A i \in 1..Len(zones) :
                ~ RaisesKeyError(zones[i])
                   => /\ CachedCapacity(thresholds', zones[i].id) = default_capacity(zones[i].type)
                      /\ CachedAllowed(thresholds', zones[i].id) = AllowedPeople(zones[i])]_vars

\* the step is a detect_all_anomalies call
DetectAllCall ==
    /\ anomalies' # NoScan
    /\ anomalies'.rule \notin {"idle", "overcrowded", "unauthorized", "movement"}

\* the unauthorized-access events about a person that the call of this step returned
ReportedIntruder(person_id) ==
    {ev \in BagToSet(anomalies'.events) :
        ev.type = "unauthorized_access" /\ ev.person_id = person_id}

\* C24: a detect_all_anomalies call more than 60 s after the last refresh
\* derives the cached capacity and allowed persons of every zone from the
\* zone's type and name of that moment, resets the refresh time and only
\* then evaluates the rules, so that a person is reported as an intruder
\* according to the zone's name of that moment; a call at most 60 s after
\* the last refresh leaves the cache and the refresh time as they are.
C24_RefreshBeforeRules ==
    [][DetectAllCall =>
          IF clock - last_update > refresh_interval
          THEN /\ anomalies'.rule = "all"
               /\ last_update' = clock
               /\ \A i \in 1..Len(zones) :
                     ~ RaisesKeyError(zones[i])
                        => /\ CachedCapacity(thresholds', zones[i].id)
                                 = default_capacity(zones[i].type)
                           /\ CachedAllowed(thresholds', zones[i].id)
                                 = AllowedPeople(zones[i])
               /\ \A q \in DOMAIN person_zones :
                     (HasZone(zones, person_zones[q])
                        /\ ~ RaisesKeyError(ZoneById(zones, person_zones[q])))
                        => LET allowed == AllowedPeople(ZoneById(zones, person_zones[q]))
                           IN  (ReportedIntruder(q) # {})
                                  <=> (allowed # <<>> /\ ~ InList(q, allowed))
          ELSE /\ thresholds' = thresholds
               /\ last_update' = last_update]_vars

-----------------------------------------------------------------------------
(* Occupancy                                                               *)

\* C25: get_zone_occupancy gives for every zone the number of known persons
\* whose current zone it is, 0 for a zone without such a person, and counts a
\* person without a zone nowhere; detect_overcrowded_zones compares this
\* number with the capacity: it reports a zone exactly when the number is
\* above the zone's capacity, and reports the number.
C25_OccupancyIsHeadCount ==
    /\ \A i \in 1..Len(zones) :
          get_zone_occupancy(zones[i].id)
             = Cardinality({q \in DOMAIN person_zones : person_zones[q] = zones[i].id})
    /\ get_zone_occupancy(NoZone) = 0
    /\ anomalies.rule = "overcrowded" =>
          /\ \A ev \in Events : ev.metric = get_zone_occupancy(ev.zone_id)
          /\ \A i \in 1..Len(zones) :
                LET capacity == Get(thresholds.zone_capacity, zones[i].id, 0)
                IN  (EventsAt(zones[i].id) # {})
                       <=> (capacity # 0 /\ get_zone_occupancy(zones[i].id) > capacity)

\* a scan reported a zone as overcrowded while some known person was in no zone
C25_Witness ==
    /\ anomalies.rule = "overcrowded"
    /\ Events # {}
    /\ \E q \in DOMAIN person_zones : person_zones[q] = NoZone

\* a scan ran while persons were known and the zone was empty
C25_WitnessEmpty ==
    /\ anomalies.rule = "overcrowded"
    /\ DOMAIN person_zones # {}
    /\ \E i \in 1..Len(zones) : get_zone_occupancy(zones[i].id) = 0

-----------------------------------------------------------------------------
(* What a scan writes                                                      *)

\* C26: a call of detect_all_anomalies or of one of the four rules leaves the
\* persons' zones, the entry times, time_in_zones, the productive times and
\* the movement history as they are; detect_all_anomalies may write the
\* cached thresholds and the time of the last refresh, the rules write
\* nothing.
C26_ScansOnlyRead ==
    [][anomalies' # NoScan =>
          /\ UNCHANGED <<person_zones, zone_entry_times, time_in_zones,
                         daily_productive_time, movement_history>>
          /\ anomalies'.rule # "all" => UNCHANGED <<thresholds, last_update>>
          /\ UNCHANGED <<trackerVars, clock, zones, last_update_time, analyzerVars>>]_vars

\* detect_all_anomalies has refreshed the thresholds and reported events
\* about known persons with a movement history
C26_Witness ==
    /\ anomalies.rule = "all"
    /\ Events # {}
    /\ last_update = clock
    /\ last_update > Epoch
    /\ DOMAIN person_zones # {}
    /\ DOMAIN movement_history # {}

\* one of the rules has reported a person who has no time_in_zones yet
C26_WitnessRule ==
    /\ anomalies.rule = "idle"
    /\ \E ev \in Events : ev.person_id \notin DOMAIN time_in_zones

-----------------------------------------------------------------------------
(* update with and without detections                                      *)

\* the step is an update([]) call: only that call returns self.objects
EmptyUpdate == ret'.kind = "objects"

\* C27: update([]) adds exactly 1 to the missed frames of every active track,
\* retires the tracks whose missed frames then exceed max_disappeared,
\* registers no track and changes no box, and what it returns is empty, also
\* when tracks remain active.
C27_EmptyUpdateReturnsEmpty ==
    [][EmptyUpdate =>
          /\ \A id \in DOMAIN objects :
                IF disappeared[id] + 1 > max_disappeared
                THEN id \notin DOMAIN objects'
                ELSE /\ id \in DOMAIN objects'
                     /\ disappeared'[id] = disappeared[id] + 1
                     /\ objects'[id] = objects[id]
          /\ DOMAIN objects' \subseteq DOMAIN objects
          /\ ret'.list = <<>>
          /\ DOMAIN objects' = {}]_vars

\* C28: every active track has between 0 and max_disappeared missed frames,
\* and a track that k update calls in a row have left unmatched is still
\* active exactly when k <= max_disappeared: it is retired by the call that
\* takes its missed frames above max_disappeared, and by no other.
C28_RetiredExactlyAboveLimit ==
    /\ \A id \in DOMAIN objects :
          /\ 0 <= disappeared[id]
          /\ disappeared[id] <= max_disappeared
          /\ disappeared[id] = unmatched_ticks[id]
    /\ \A id \in DOMAIN unmatched_ticks :
          (id \in DOMAIN objects) <=> (unmatched_ticks[id] <= max_disappeared)
    /\ \A id \in retired_ids : unmatched_ticks[id] = max_disappeared + 1

\* one track has been retired, another has gone unmatched max_disappeared
\* times and is still active
C28_Witness ==
    /\ retired_ids # {}
    /\ \E id \in DOMAIN objects :
          unmatched_ticks[id] = max_disappeared /\ max_disappeared > 0

-----------------------------------------------------------------------------
C29_WitnessRetired ==
    \E p \in trk_call.chosen \ trk_call.accepted :
        /\ p[1] \in trk_call.retired
        /\ trk_call.assigned[p[2]] \in DOMAIN objects

\* a pair of IoU 1 was accepted by a tracker whose min_iou is 1
C29_WitnessEqual ==
    /\ min_iou = <<1, 1>>
    /\ trk_call.accepted # {}

-----------------------------------------------------------------------------
\* C30: after a call of SimpleTracker.update, each track of an accepted match
\* is active under the identity it had, its box is the box of the detection
\* it was matched with, and its missed_frames is 0, whatever it was before.
C30_MatchedTrackRefreshed ==
    \A p \in trk_call.accepted :
        /\ p[1] \in DOMAIN trk_call.missed
        /\ p[1] \in DOMAIN objects
        /\ p[1] \notin retired_ids
        /\ objects[p[1]] = BoxOf(trk_call.detections[p[2]])
        /\ disappeared[p[1]] = 0

\* a track that had missed a frame was matched, beside a track that was not
C30_Witness ==
    /\ \E p \in trk_call.accepted : trk_call.missed[p[1]] > 0
    /\ \E id \in DOMAIN objects : disappeared[id] > 0

-----------------------------------------------------------------------------
\* C31: a call of SimpleTracker.update with n >= 1 detections and no active
\* track registers exactly n tracks, one per detection, under the identities
\* next_object_id, next_object_id + 1, ... in input order, each with its
\* detection's box and missed_frames 0, and returns each detection with the
\* identity it was registered under.
C31_RegisterAllReturnsOwnIdentity ==
    [][(DOMAIN objects = {} /\ trk_call'.detections # <<>>) =>
          LET detections == trk_call'.detections
              n == Len(detections)
              idOf(j) == next_object_id + j - 1
          IN  /\ DOMAIN objects' = {idOf(j) : j \in 1..n}
              /\ Cardinality(DOMAIN objects') = n
              /\ \A j \in 1..n :
                    /\ idOf(j) \notin retired_ids
                    /\ objects'[idOf(j)] = BoxOf(detections[j])
                    /\ disappeared'[idOf(j)] = 0
              /\ ret'.kind = "list"
              /\ Len(ret'.list) = n
              /\ \A j \in 1..n : ret'.list[j][1] = idOf(j)
      ]_vars

\* the registration half of C31 alone, which the code does provide
C31_RegisterAllRegisters ==
    [][(DOMAIN objects = {} /\ trk_call'.detections # <<>>) =>
          LET detections == trk_call'.detections
              n == Len(detections)
              idOf(j) == next_object_id + j - 1
          IN  /\ DOMAIN objects' = {idOf(j) : j \in 1..n}
              /\ \A j \in 1..n :
                    /\ idOf(j) \notin retired_ids
                    /\ objects'[idOf(j)] = BoxOf(detections[j])
                    /\ disappeared'[idOf(j)] = 0
      ]_vars

-----------------------------------------------------------------------------
\* no track in two pairs and no detection in two pairs
OneToOne(pairs) ==
    \A p, q \in pairs : (p[1] = q[1] \/ p[2] = q[2]) => p = q

\* C32: in a call of SimpleTracker.update with at least one active track and
\* one detection, the accepted matches are a one-to-one pairing taken from
\* an assignment of min(#tracks, #detections) one-to-one pairs whose total
\* IoU is maximal among all such assignments.
C32_MatchesFromOptimalAssignment ==
    [][(DOMAIN objects # {} /\ trk_call'.detections # <<>>) =>
          LET detections == trk_call'.detections
              ids == DOMAIN objects
              k == Min(Cardinality(ids), Len(detections))
              Pairings == {a \in SUBSET (ids \X (1..Len(detections))) :
                              Cardinality(a) = k /\ OneToOne(a)}
              chosen == trk_call'.chosen
          IN  /\ OneToOne(trk_call'.accepted)
              /\ trk_call'.accepted \subseteq chosen
              /\ chosen \in Pairings
              /\ \A a \in Pairings :
                    TotalIou(TrackerState, detections, a)
                        <= TotalIou(TrackerState, detections, chosen)
      ]_vars

\* a call matched two tracks with two detections
C32_Witness ==
    Cardinality(trk_call.accepted) = 2

\* a call with two tracks and one detection matched one of the tracks
C32_WitnessFewer ==
    /\ Cardinality(DOMAIN trk_call.missed) = 2
    /\ Len(trk_call.detections) = 1
    /\ trk_call.accepted # {}

-----------------------------------------------------------------------------
\* the list of the call holds the identity of its j-th detection only once
OnceInList(detections, j) ==
    \A i \in 1..Len(detections) : detections[i][1] = detections[j][1] => i = j

\* C33: after PersonZoneTracker.update has processed an identity at time now
\* (an identity its list holds once): if the identity is new or resolves to
\* a zone other than its current zone before the call, its current zone is
\* the resolved zone, with the entry time now when that zone is not none and
\* with no entry time recorded when it is none; if it resolves to its
\* current zone, its entry times are as before the call.
C33_ZoneChangeSetsEntry ==
    [][last_update_time' # last_update_time =>
          \A j \in 1..Len(zone_call'.detections) :
              LET detection == zone_call'.detections[j]
                  q == detection[1]
                  zone_id == get_zone_for_point(zones, <<detection[2], detection[3]>>)
              IN  (q >= 0 /\ OnceInList(zone_call'.detections, j)) =>
                     IF q \notin DOMAIN person_zones \/ person_zones[q] # zone_id
                     THEN /\ person_zones'[q] = zone_id
                          /\ IF zone_id # NoZone
                             THEN Get(Get(zone_entry_times', q, <<>>), zone_id, NoTime)
                                     = zone_call'.now
                             ELSE Get(zone_entry_times', q, <<>>) = <<>>
                     ELSE /\ person_zones'[q] = zone_id
                          /\ Get(zone_entry_times', q, <<>>)
                                = Get(zone_entry_times, q, <<>>)
      ]_vars

\* C33 without the clearing of the entry time on leaving every zone, which
\* the code does provide
C33_ZoneEnteredSetsEntry ==
    [][last_update_time' # last_update_time =>
          \A j \in 1..Len(zone_call'.detections) :
              LET detection == zone_call'.detections[j]
                  q == detection[1]
                  zone_id == get_zone_for_point(zones, <<detection[2], detection[3]>>)
              IN  (q >= 0 /\ OnceInList(zone_call'.detections, j)) =>
                     IF q \notin DOMAIN person_zones \/ person_zones[q] # zone_id
                     THEN /\ person_zones'[q] = zone_id
                          /\ zone_id # NoZone =>
                                Get(Get(zone_entry_times', q, <<>>), zone_id, NoTime)
                                   = zone_call'.now
                     ELSE /\ person_zones'[q] = zone_id
                          /\ Get(zone_entry_times', q, <<>>)
                                = Get(zone_entry_times, q, <<>>)
      ]_vars

-----------------------------------------------------------------------------
\* C34: the first PersonZoneTracker.update call seeds last_update_time with
\* its now, so its elapsed time is 0; every later call computes elapsed as
\* its now minus the last_update_time the call before left, which is what a
\* person staying in a productive zone is credited; and every call leaves
\* last_update_time at its now, also when its list is empty or holds
\* detections it skips. (A step that leaves the clock alone is an update.)
C34_ElapsedSinceLastCall ==
    [][clock' = clock =>
          LET elapsed == IF last_update_time = NoTime THEN 0
                         ELSE clock - last_update_time
              detections == zone_call'.detections
          IN  /\ last_update_time' = clock
              /\ zone_call'.now = clock
              /\ zone_call'.time_diff = elapsed
              /\ \A j \in 1..Len(detections) :
                    LET q == detections[j][1]
                        zone_id == get_zone_for_point(zones,
                                      <<detections[j][2], detections[j][3]>>)
                    IN  (/\ q \in DOMAIN person_zones
                         /\ OnceInList(detections, j)
                         /\ zone_id # NoZone
                         /\ person_zones[q] = zone_id
                         /\ is_productive_zone(zones, zone_id))
                        => Get(daily_productive_time', q, 0)
                              = get_productive_time(q) + elapsed
      ]_vars

\* a later call with an empty list has advanced last_update_time
C34_Witness ==
    /\ zone_call.detections = <<>>
    /\ zone_call.time_diff > 0
    /\ last_update_time = zone_call.now
    /\ person_zones # <<>>

\* a later call that skipped an untracked detection has advanced it as well
C34_WitnessSkipped ==
    /\ \E j \in 1..Len(zone_call.detections) : zone_call.detections[j][1] < 0
    /\ zone_call.time_diff > 0
    /\ last_update_time = zone_call.now

\* a person who stayed at a desk was credited the elapsed time
C34_WitnessCredited ==
    /\ zone_call.time_diff > 0
    /\ \E q \in DOMAIN person_zones :
          /\ person_zones[q] = "desk1"
          /\ get_productive_time(q) = zone_call.time_diff

-----------------------------------------------------------------------------
(* Claims about the driving loop                                           *)

\* C35: however the driving loop is left (camera.read returned None, the
\* quit key, an exception raised in the loop), the shutdown calls
\* camera.stop first and zone_tracker.save_data for the final file after
\* it, once: the loop is left exactly when a reason is recorded, the final
\* save is never made before or without camera.stop, and when main is done
\* the camera is stopped and released and the file holds the dwell state.
C35_StopBeforeFinalSave ==
    /\ main.shutdown \in {<<>>, <<"camera.stop">>, <<"camera.stop", "save_data">>}
    /\ (main.exit # "none") <=> (main.pc \in {"finally", "stopped", "done"})
    /\ main.pc \in {"loop", "periodic", "finally"} => main.shutdown = <<>>
    /\ main.pc = "stopped" =>
          /\ main.shutdown = <<"camera.stop">>
          /\ camera.stopped /\ camera.released
    /\ main.pc = "done" =>
          /\ main.shutdown = <<"camera.stop", "save_data">>
          /\ camera.stopped /\ camera.released
          /\ tracking_file # NoFile
          /\ tracking_file.text = save_data

\* main is done after an exception in the loop, with a person's dwell saved
C35_Witness ==
    /\ main.pc = "done"
    /\ main.exit = "exception"
    /\ person_zones # <<>>

\* main is done after the quit key
C35_WitnessQuit ==
    /\ main.pc = "done"
    /\ main.exit = "quit"

\* main is done after camera.read returned None
C35_WitnessEnd ==
    /\ main.pc = "done"
    /\ main.exit = "end"

\* main is done after the zone tracker raised on the dict of an update
\* without detections
C35_WitnessTypeError ==
    /\ main.pc = "done"
    /\ main.exit = "exception"
    /\ ret.kind = "objects"
    /\ DOMAIN objects # {}

-----------------------------------------------------------------------------
\* C40: once the camera thread's cap.read has failed after at least one
\* frame was delivered, the driving loop, left alone (no quit key, no
\* failure from outside), eventually leaves the loop and main gets done,
\* the final snapshot saved. (The claim asks in addition that the loop is
\* left because it observed the end of the stream.)
C40_EndOfStreamLeavesLoop ==
    (camera.thread = "exited" /\ camera.delivered > 0 /\ camera.frame # NoFrame)
        ~> (main.pc = "done")

\* what the code does provide: a stream that ends before its first frame
\* is observed, and while a frame is stored camera.read never returns None
C40_StaleFrameKept ==
    [][camera.frame # NoFrame => camera'.frame # NoFrame]_vars

-----------------------------------------------------------------------------
\* C36: a call of SimpleTracker.update with a list of detections that is not
\* empty returns a list with one record per detection, in input order, with
\* the detection's box and confidence, under an identity that is not
\* negative and is that of a track active after the call: the marker -1 of
\* an unmatched detection is never returned.
C36_ReturnedRecordsAreTracked ==
    trk_call.detections # <<>> =>
        /\ ret.kind = "list"
        /\ Len(ret.list) = Len(trk_call.detections)
        /\ \A j \in 1..Len(ret.list) :
              /\ Len(ret.list[j]) = 6
              /\ \A field \in 2..6 : ret.list[j][field] = trk_call.detections[j][field]
              /\ ret.list[j][1] >= 0
              /\ ret.list[j][1] \in DOMAIN objects

\* two detections were returned under two identities, one of them that of a
\* track matched again and one newly registered
C36_Witness ==
    /\ Len(ret.list) = 2
    /\ ret.list[1][1] # ret.list[2][1]
    /\ trk_call.accepted # {}
    /\ FreshDetections # {}

-----------------------------------------------------------------------------
\* C37: in the list one call of SimpleTracker.update returns, no two
\* detections carry the same identity.
C37_ReturnedIdentitiesDistinct ==
    ret.kind = "list" =>
        \A i, j \in 1..Len(ret.list) :
            ret.list[i][1] = ret.list[j][1] => i = j

-----------------------------------------------------------------------------
\* the j-th detection of the call just made was registered as a new track
RegisteredNew(j) == ~ \E p \in trk_call'.accepted : p[2] = j
\* the track T, active before the call just made, was left unmatched by it
LeftUnmatched(T) == ~ \E p \in trk_call'.accepted : p[1] = T
\* the IoU of T's box before the call and the call's j-th detection
IouBefore(T, j) == calculate_iou(objects[T], BoxOf(trk_call'.detections[j]))
WeightBefore(T, j) == IouWeight[objects[T]][BoxOf(trk_call'.detections[j])]

\* C38: after a call of SimpleTracker.update no track that was active before
\* the call and left unmatched by it has an IoU of at least min_iou (with
\* its box before the call) with a detection the call registered as a new
\* track.
C38_NoMatchableLeftUnmatched ==
    [][\A T \in DOMAIN objects : \A j \in 1..Len(trk_call'.detections) :
          (LeftUnmatched(T) /\ RegisteredNew(j)) =>
              ~ FracGeq(IouBefore(T, j), min_iou)
      ]_vars

\* C38, amended: a track left unmatched and a detection registered as new
\* have an IoU of at least min_iou only when the assignment paired the track
\* with another detection and the detection with another track, both pairs
\* below min_iou, and the two pairs together have at least the total IoU of
\* pairing the track with the detection and the other two with each other.
C38_MatchableLeftOnlyByTradeOff ==
    [][\A T \in DOMAIN objects : \A j \in 1..Len(trk_call'.detections) :
          (LeftUnmatched(T) /\ RegisteredNew(j) /\ FracGeq(IouBefore(T, j), min_iou)) =>
              \E p, q \in trk_call'.chosen :
                  /\ p[1] = T /\ p[2] # j
                  /\ q[2] = j /\ q[1] # T
                  /\ ~ FracGeq(IouBefore(T, p[2]), min_iou)
                  /\ ~ FracGeq(IouBefore(q[1], j), min_iou)
                  /\ WeightBefore(T, j) + WeightBefore(q[1], p[2])
                        <= WeightBefore(T, p[2]) + WeightBefore(q[1], j)
      ]_vars

\* a call has left a track unmatched, with the box it had, beside a newly
\* registered detection whose IoU with that box is at least min_iou
C38_Witness ==
    \E T \in DOMAIN objects \cap DOMAIN trk_call.missed : \E j \in FreshDetections :
        /\ ~ \E p \in trk_call.accepted : p[1] = T
        /\ trk_call.assigned[j] \in DOMAIN objects
        /\ FracGeq(calculate_iou(objects[T], BoxOf(trk_call.detections[j])), min_iou)

-----------------------------------------------------------------------------
\* the sum of the person's time_in_zone over the zone ids of S
RECURSIVE TimeInZones(_, _)
TimeInZones(person_id, S) ==
    IF S = {} THEN 0
    ELSE LET zone_id == CHOOSE z \in S : TRUE
         IN  get_time_in_zone(person_id, zone_id) + TimeInZones(person_id, S \ {zone_id})

\* the time the person has been attributed to productive zones: the time in
\* the productive zones left so far and, in a productive current zone, the
\* time since it was entered, up to the last update
AttributedProductiveTime(person_id) ==
    LET productive == {zs.id : zs \in {zones[i] : i \in 1..Len(zones)}}
                         \cap {zone_id \in DOMAIN Get(time_in_zones, person_id, <<>>) :
                                  is_productive_zone(zones, zone_id)}
        current == Get(person_zones, person_id, NoZone)
        entry_time == Get(Get(zone_entry_times, person_id, <<>>), current, NoTime)
    IN  TimeInZones(person_id, productive)
          + (IF current # NoZone /\ is_productive_zone(zones, current)
                /\ entry_time # NoTime
             THEN last_update_time - entry_time ELSE 0)

\* C39: with update calls at non-decreasing times, no person's productive
\* time exceeds the time the person has been attributed to productive
\* zones.
C39_ProductiveTimeWithinDwell ==
    \A q \in DOMAIN daily_productive_time :
        get_productive_time(q) <= AttributedProductiveTime(q)
====
